---- MODULE Spec2Model ----
(***************************************************************************)
(* Model of the logging pipeline of project-daystrom.                      *)
(*                                                                         *)
(* The repository holds two implementations of the module '@app/log':      *)
(*   - the createLogger facade (log/index.ts), which locates the caller,   *)
(*     resolves it through an inline source map and calls the plugin-log   *)
(*     functions itself;                                                   *)
(*   - the bit-log TauriAppender, which forwards bit-log events to the     *)
(*     same plugin-log functions and latches itself off on failure.        *)
(* A process runs one of the two (they are the same module path); the      *)
(* variable impl says which.  Strings are sequences of one-character       *)
(* strings; the token SEP stands for the character U+001F.                 *)
(*                                                                         *)
(* The module also models the status polling and the two actions of       *)
(* App.vue (SpecApp) and the command dispatch of scripts/build.ts          *)
(* (SpecBuild); their variables stay at their initial values in the        *)
(* specifications of the logging pipeline.                                 *)
(***************************************************************************)
EXTENDS Integers, Sequences, FiniteSets, TLC

VARIABLES
    impl,        \* which implementation of '@app/log' the process runs
    disabled,    \* TauriAppender.disabled, per appender instance
    inflight,    \* per instance: handle() calls suspended at 'await logFn(...)'
    nHandle,     \* number of handle() calls made so far
    nInvoked,    \* per instance: sink invocations made by handle()
    nFailed,     \* per instance: sink invocations of handle() that rejected
    overlap,     \* per instance: calls still in flight when the first one failed
    sourceMapCache, \* const sourceMapCache: per URL "undefined" (no entry), "null" or "consumer"
    pend,        \* the emit calls of createLogger whose promise chain is not finished
    microtasks,  \* ids of the emits whose continuation is queued, in queue order
    nEmit,       \* number of emit calls made so far
    nFetch,      \* per URL: fetches started
    unhandled,   \* a promise was rejected with no handler attached
    nSunk,       \* sink invocations made by the emit calls so far
    cur,         \* the operation the latest step executed, with its inputs
    sunk,        \* the sink invocations the latest step made, in order
    \* App.vue
    status,      \* ref status: the GameStatus last received, or null
    error,       \* ref error
    actionError, \* ref actionError
    actionPending, \* ref actionPending
    pollTimer,   \* let pollTimer: the id setInterval returned, or null
    intervals,   \* ids of the intervals created and not cleared
    timerSeq,    \* the last timer id handed out
    timeouts,    \* pending callbacks of setTimeout(..., 1000)
    statusCalls, \* unsettled invoke('get_game_status')
    invoking,    \* per action command: unsettled invokes
    phase,       \* "setup", "mounted" or "unmounted"
    launchUnseen, \* launch_game succeeded and no status response was processed since
    nClick,      \* clicks on the two buttons so far
    nTick,       \* firings of the polling interval so far
    \* scripts/build.ts
    command,     \* process.argv[2]
    platform,    \* process.platform
    handler,     \* COMMANDS[command]
    todo,        \* the steps the handler has still to run
    started,     \* the steps started, in order
    completed,   \* the steps that completed successfully, in order
    stage,       \* "start", "running" or "exited"
    exitStatus   \* the exit status of the process once it has exited

appenderVars == <<disabled, inflight, nHandle, nInvoked, nFailed, overlap>>
loggerVars == <<sourceMapCache, pend, microtasks, nEmit, nFetch, unhandled, nSunk>>
appVars == <<status, error, actionError, actionPending, pollTimer, intervals, timerSeq, timeouts,
             statusCalls, invoking, phase, launchUnseen, nClick, nTick>>
buildVars == <<command, platform, handler, todo, started, completed, stage, exitStatus>>
vars == <<impl, appenderVars, loggerVars, cur, sunk, appVars, buildVars>>

\* ---- bounds ----
MaxHandle == 3
MaxEmit == 2
\* calls of the logger in the specification of the order of sink invocations
MaxOrderEmit == 3
\* clicks on the buttons of App.vue and firings of its polling interval
MaxClick == 3
MaxTick == 2

\* ---- strings ----
SEP == "US"

RECURSIVE Join(_, _)
Join(parts, sep) ==
    IF parts = <<>> THEN <<>>
    ELSE IF Len(parts) = 1 THEN parts[1]
    ELSE parts[1] \o sep \o Join(Tail(parts), sep)

Digit(d) == CASE d = 0 -> "0" [] d = 1 -> "1" [] d = 2 -> "2" [] d = 3 -> "3"
              [] d = 4 -> "4" [] d = 5 -> "5" [] d = 6 -> "6" [] d = 7 -> "7"
              [] d = 8 -> "8" [] d = 9 -> "9"

RECURSIVE DecStr(_)
DecStr(n) ==
    IF n < 0 THEN <<"-">> \o DecStr(0 - n)
    ELSE IF n < 10 THEN <<Digit(n)>>
    ELSE DecStr(n \div 10) \o <<Digit(n % 10)>>

\* ---- JavaScript string primitives (indices are 0-based as in the source) ----
Min(a, b) == IF a < b THEN a ELSE b
Max(a, b) == IF a > b THEN a ELSE b

\* String.prototype.slice(from, to) for 0 <= from, to
Slice(s, from, to) == SubSeq(s, from + 1, Min(to, Len(s)))

\* String.prototype.indexOf(c): -1 when absent
IndexOf(s, c) ==
    IF \E i \in 1..Len(s) : s[i] = c
    THEN (CHOOSE i \in 1..Len(s) : s[i] = c /\ \A j \in 1..(i - 1) : s[j] # c) - 1
    ELSE -1

\* String.prototype.lastIndexOf(c, from): the last occurrence at an index <= from
LastIndexUpTo(s, c, top) ==
    IF \E i \in 1..top : s[i] = c
    THEN (CHOOSE i \in 1..top : s[i] = c /\ \A j \in (i + 1)..top : s[j] # c) - 1
    ELSE -1

LastIndexOfFrom(s, c, from) == LastIndexUpTo(s, c, Min(Max(from, 0) + 1, Len(s)))

LastIndexOf(s, c) == LastIndexOfFrom(s, c, Len(s))

Includes(s, c) == IndexOf(s, c) >= 0

StartsWith(s, p) == Len(s) >= Len(p) /\ SubSeq(s, 1, Len(p)) = p

EndsWith(s, p) == Len(s) >= Len(p) /\ SubSeq(s, Len(s) - Len(p) + 1, Len(s)) = p

\* String.prototype.includes(p) for a substring p
IncludesStr(s, p) ==
    \E i \in 0..(Len(s) - Len(p)) : SubSeq(s, i + 1, i + Len(p)) = p

WhiteSpace == {" "}

RECURSIVE TrimStart(_)
TrimStart(s) ==
    IF s # <<>> /\ Head(s) \in WhiteSpace THEN TrimStart(Tail(s)) ELSE s

RECURSIVE TrimEnd(_)
TrimEnd(s) ==
    IF s # <<>> /\ s[Len(s)] \in WhiteSpace THEN TrimEnd(SubSeq(s, 1, Len(s) - 1)) ELSE s

\* String.prototype.trim()
Trim(s) == TrimEnd(TrimStart(s))

\* ---- new URL(input).pathname (WHATWG URL parser, no base URL) ----
Letters == {"a", "b", "c", "d", "e", "f", "g", "h", "i", "j", "k", "l", "m", "n", "o", "p", "q", "r", "s", "t", "u", "v", "w", "x", "y", "z",
            "A", "B", "C", "D", "E", "F", "G", "H", "I", "J", "K", "L", "M", "N", "O", "P", "Q", "R", "S", "T", "U", "V", "W", "X", "Y", "Z"}
Digits == {"0", "1", "2", "3", "4", "5", "6", "7", "8", "9"}

\* leading and trailing C0 control or space are removed before parsing
C0OrSpace == {" ", SEP}

RECURSIVE StripC0Start(_)
StripC0Start(s) ==
    IF s # <<>> /\ Head(s) \in C0OrSpace THEN StripC0Start(Tail(s)) ELSE s

RECURSIVE StripC0End(_)
StripC0End(s) ==
    IF s # <<>> /\ s[Len(s)] \in C0OrSpace THEN StripC0End(SubSeq(s, 1, Len(s) - 1)) ELSE s

IsScheme(x) ==
    /\ x # <<>>
    /\ x[1] \in Letters
    /\ \A i \in 2..Len(x) : x[i] \in Letters \cup Digits \cup {"+", "-", "."}

Lower(c) ==
    CASE c = "A" -> "a"
      [] c = "B" -> "b"
      [] c = "C" -> "c"
      [] c = "D" -> "d"
      [] c = "E" -> "e"
      [] c = "F" -> "f"
      [] c = "G" -> "g"
      [] c = "H" -> "h"
      [] c = "I" -> "i"
      [] c = "J" -> "j"
      [] c = "K" -> "k"
      [] c = "L" -> "l"
      [] c = "M" -> "m"
      [] c = "N" -> "n"
      [] c = "O" -> "o"
      [] c = "P" -> "p"
      [] c = "Q" -> "q"
      [] c = "R" -> "r"
      [] c = "S" -> "s"
      [] c = "T" -> "t"
      [] c = "U" -> "u"
      [] c = "V" -> "v"
      [] c = "W" -> "w"
      [] c = "X" -> "x"
      [] c = "Y" -> "y"
      [] c = "Z" -> "z"
      [] OTHER -> c

LowerStr(x) == [i \in 1..Len(x) |-> Lower(x[i])]

SpecialSchemes == {<<"h", "t", "t", "p">>, <<"h", "t", "t", "p", "s">>,
                   <<"w", "s">>, <<"w", "s", "s">>, <<"f", "t", "p">>,
                   <<"f", "i", "l", "e">>}
FileScheme == <<"f", "i", "l", "e">>

\* index of the first character of s that is in the set cs, Len(s) when none
FirstOf(s, cs) ==
    IF \E i \in 1..Len(s) : s[i] \in cs
    THEN (CHOOSE i \in 1..Len(s) : s[i] \in cs /\ \A j \in 1..(i - 1) : s[j] \notin cs) - 1
    ELSE Len(s)

\* number of leading characters of s that are in the set cs
RECURSIVE CountLeading(_, _)
CountLeading(s, cs) ==
    IF s # <<>> /\ Head(s) \in cs THEN 1 + CountLeading(Tail(s), cs) ELSE 0

\* the path percent-encode set, restricted to the characters of the model
PctEncode(c) ==
    IF c = " " THEN <<"%", "2", "0">>
    ELSE IF c = SEP THEN <<"%", "1", "F">>
    ELSE <<c>>

RECURSIVE PctEncodeStr(_)
PctEncodeStr(s) ==
    IF s = <<>> THEN <<>> ELSE PctEncode(Head(s)) \o PctEncodeStr(Tail(s))

\* opaque paths encode only the C0 controls
RECURSIVE PctEncodeOpaque(_)
PctEncodeOpaque(s) ==
    IF s = <<>> THEN <<>>
    ELSE (IF Head(s) = SEP THEN <<"%", "1", "F">> ELSE <<Head(s)>>) \o PctEncodeOpaque(Tail(s))

\* cut s into the segments between the separators seps
RECURSIVE SplitOn(_, _)
SplitOn(s, seps) ==
    IF FirstOf(s, seps) = Len(s) THEN <<s>>
    ELSE <<Slice(s, 0, FirstOf(s, seps))>> \o SplitOn(Slice(s, FirstOf(s, seps) + 1, Len(s)), seps)

DropLast(q) == IF q = <<>> THEN q ELSE SubSeq(q, 1, Len(q) - 1)

\* the path state: '.' and '..' segments are resolved, the others encoded
RECURSIVE PathSegments(_, _)
PathSegments(segs, acc) ==
    IF segs = <<>> THEN acc
    ELSE IF Head(segs) = <<".", ".">>
    THEN PathSegments(Tail(segs), IF Len(segs) = 1 THEN DropLast(acc) \o <<<<>>>> ELSE DropLast(acc))
    ELSE IF Head(segs) = <<".">>
    THEN PathSegments(Tail(segs), IF Len(segs) = 1 THEN acc \o <<<<>>>> ELSE acc)
    ELSE PathSegments(Tail(segs), acc \o <<PctEncodeStr(Head(segs))>>)

\* pathname of a hierarchical path that starts at its leading separator
PathName(path, seps) ==
    IF path = <<>> THEN <<>>
    ELSE <<"/">> \o Join(PathSegments(SplitOn(Tail(path), seps), <<>>), <<"/">>)

ForbiddenHost == {" ", SEP, "/", ":", "?", "@", "\\", "#", "%"}

URLFail == [ok |-> FALSE, pathname |-> <<>>]
URLOk(pathname) == [ok |-> TRUE, pathname |-> pathname]

\* host and port of an authority: the host holds no forbidden character and
\* the port is a short run of digits
HostAndPortOk(host, port, emptyHostOk) ==
    /\ emptyHostOk \/ host # <<>>
    /\ \A i \in 1..Len(host) : host[i] \notin ForbiddenHost
    /\ \A i \in 1..Len(port) : port[i] \in Digits
    /\ Len(port) <= 4

\* host[:port], cut at the last colon c
HostPortAt(hostport, c, emptyHostOk) ==
    IF c >= 0
    THEN HostAndPortOk(Slice(hostport, 0, c), Slice(hostport, c + 1, Len(hostport)), emptyHostOk)
    ELSE HostAndPortOk(hostport, <<>>, emptyHostOk)

HostPortOk(hostport, emptyHostOk) ==
    HostPortAt(hostport, LastIndexOf(hostport, ":"), emptyHostOk)

\* the authority (credentials before the last '@' are dropped) and the path
ParseHostPath(special, emptyHostOk, seps, authority, path) ==
    IF ~HostPortOk(Slice(authority, LastIndexOf(authority, "@") + 1, Len(authority)), emptyHostOk)
    THEN URLFail
    ELSE URLOk(IF path = <<>> /\ special THEN <<"/">> ELSE PathName(path, seps))

\* the authority ends at the first path separator, authEnd
ParseAuthorityAt(special, emptyHostOk, seps, afterLead, authEnd) ==
    ParseHostPath(special, emptyHostOk, seps,
                  Slice(afterLead, 0, authEnd), Slice(afterLead, authEnd, Len(afterLead)))

ParseAuthority(special, emptyHostOk, seps, afterLead) ==
    ParseAuthorityAt(special, emptyHostOk, seps, afterLead, FirstOf(afterLead, seps))

\* what follows 'scheme:', without query and fragment
ParseAfterScheme(special, isFile, seps, hier) ==
    IF special /\ ~isFile
    THEN \* http: and friends ignore any number of slashes before the authority
         ParseAuthority(TRUE, FALSE, seps, Slice(hier, CountLeading(hier, seps), Len(hier)))
    ELSE IF Len(hier) >= 2 /\ hier[1] \in seps /\ hier[2] \in seps
    THEN ParseAuthority(special, TRUE, seps, Slice(hier, 2, Len(hier)))
    ELSE IF hier # <<>> /\ hier[1] \in seps
    THEN URLOk(PathName(hier, seps))
    ELSE IF special
    THEN URLOk(PathName(<<"/">> \o hier, seps))
    ELSE URLOk(PctEncodeOpaque(hier))

CutAt(s, cs) == Slice(s, 0, FirstOf(s, cs))

ParseScheme(scheme, rest) ==
    ParseAfterScheme(scheme \in SpecialSchemes, scheme = FileScheme,
                     IF scheme \in SpecialSchemes THEN {"/", "\\"} ELSE {"/"},
                     CutAt(CutAt(rest, {"#"}), {"?"}))

ParseAtColon(s, colon) ==
    IF colon <= 0 \/ ~IsScheme(Slice(s, 0, colon)) THEN URLFail
    ELSE ParseScheme(LowerStr(Slice(s, 0, colon)), Slice(s, colon + 1, Len(s)))

ParseStripped(s) == ParseAtColon(s, IndexOf(s, ":"))

ParseURL(input) == ParseStripped(StripC0End(StripC0Start(input)))

\* ---- the plugin-log sink ----
\* trace/debug/info/warn/error of @tauri-apps/plugin-log: async functions, so a
\* failure inside one (Tauri absent, IPC error) is a rejected promise
SinkFns == {"trace", "debug", "info", "warn", "error"}

NoOptions == [present |-> FALSE, file |-> <<>>, line |-> 0]
Options(file, line) == [present |-> TRUE, file |-> file, line |-> line]

\* one call fn(text, options) of a sink function
Invocation(fn, text, options) == [fn |-> fn, text |-> text, options |-> options]

\* ---- TauriAppender ----
Appenders == {"a1", "a2"}

LevelStrings == {"TRACE", "DEBUG", "INFO", "WARN", "ERROR", "FATAL", "OFF"}
\* a level that is not a string (a numeric level); typeof level # 'string'
NonStringLevel == "<number>"
Levels == LevelStrings \cup {NonStringLevel}

\* a mutant of levelFunctions: the FATAL entry is missing
levelFunctionsWithoutFatal(levelStr) ==
    CASE levelStr = "TRACE" -> "trace"
      [] levelStr = "DEBUG" -> "debug"
      [] levelStr = "INFO" -> "info"
      [] levelStr = "WARN" -> "warn"
      [] levelStr = "ERROR" -> "error"
      [] OTHER -> "undefined"

\* const levelFunctions: Record<string, typeof info>; "undefined" for a missing key
levelFunctions(levelStr) ==
    CASE levelStr = "TRACE" -> "trace"
      [] levelStr = "DEBUG" -> "debug"
      [] levelStr = "INFO" -> "info"
      [] levelStr = "WARN" -> "warn"
      [] levelStr = "ERROR" -> "error"
      [] levelStr = "FATAL" -> "error"
      [] OTHER -> "undefined"

\* stripOrigin of TauriAppender.ts: new URL(file).pathname.slice(1), or file
AppenderPathnameSlice1(file, u) == IF u.ok THEN Slice(u.pathname, 1, Len(u.pathname)) ELSE file

AppenderStripOrigin(file) == AppenderPathnameSlice1(file, ParseURL(file))

\* payload elements: a string, a number, or a lazy function that returns v or throws
StrItem(v) == [k |-> "str", v |-> v, n |-> 0, ok |-> TRUE]
NumItem(n) == [k |-> "num", v |-> <<>>, n |-> n, ok |-> TRUE]
LazyItem(v) == [k |-> "lazy", v |-> v, n |-> 0, ok |-> TRUE]
ThrowingItem == [k |-> "lazy", v |-> <<>>, n |-> 0, ok |-> FALSE]

LazyEvalError == <<"[", "l", "a", "z", "y", " ", "e", "v", "a", "l", " ", "e", "r", "r", "o", "r", "]">>

\* AbstractBaseAppender.formatAny of bit-log for the values of the model
formatAny(value) == IF value.k = "str" THEN value.v ELSE DecStr(value.n)

\* a mutant of resolvePayloadItem: a lazy item is called outside try/catch
resolvePayloadItemUnguarded(value) ==
    IF value.k = "lazy" THEN value.v ELSE formatAny(value)

resolvePayloadItem(value) ==
    IF value.k = "lazy"
    THEN IF value.ok THEN value.v ELSE LazyEvalError
    ELSE formatAny(value)

\* event.payload is an array of elements or one lazy function
ArrayPayload(items) == [fn |-> FALSE, items |-> items, v |-> <<>>, ok |-> TRUE]
LazyPayload(v) == [fn |-> TRUE, items |-> <<>>, v |-> v, ok |-> TRUE]
ThrowingPayload == [fn |-> TRUE, items |-> <<>>, v |-> <<>>, ok |-> FALSE]

\* the message TauriAppender.handle builds from event.payload
HandleMessage(payload) ==
    IF payload.fn
    THEN IF payload.ok THEN payload.v ELSE LazyEvalError
    ELSE Join([i \in 1..Len(payload.items) |-> resolvePayloadItem(payload.items[i])], <<" ">>)

NoCallSite == [present |-> FALSE, file |-> <<>>, line |-> 0, column |-> 0]
CallSite(file, line, column) == [present |-> TRUE, file |-> file, line |-> line, column |-> column]

\* the sink function handle() picks for event.level
\* levelFunctions[levelStr] ?? info
OrInfo(f) == IF f = "undefined" THEN "info" ELSE f

HandleLogFn(level) ==
    OrInfo(levelFunctions(IF level # NonStringLevel THEN level ELSE "INFO"))

HandleText(event) == event.loggerName \o <<SEP>> \o HandleMessage(event.payload)

HandleOptions(event) ==
    IF event.callSite.present
    THEN Options(AppenderStripOrigin(event.callSite.file), event.callSite.line)
    ELSE NoOptions

\* ---- createLogger (log/index.ts): the pure parts ----

\* Number(text) for the texts of the model: surrounding white space is ignored,
\* the empty text is 0, an optionally signed run of digits is that integer and
\* anything else is NaN; isInteger is Number.isInteger of the result
RECURSIVE DigitsValue(_)
DigitsValue(ds) ==
    IF ds = <<>> THEN 0
    ELSE 10 * DigitsValue(SubSeq(ds, 1, Len(ds) - 1))
         + (CHOOSE d \in 0..9 : Digit(d) = ds[Len(ds)])

SignedDigits(t, signed, ds) ==
    IF ds # <<>> /\ \A i \in 1..Len(ds) : ds[i] \in Digits
    THEN [isInteger |-> TRUE,
          value |-> IF signed /\ t[1] = "-" THEN 0 - DigitsValue(ds) ELSE DigitsValue(ds)]
    ELSE [isInteger |-> FALSE, value |-> 0]

NumberOfTrimmed(t) ==
    IF t = <<>> THEN [isInteger |-> TRUE, value |-> 0]
    ELSE IF t[1] \in {"-", "+"} THEN SignedDigits(t, TRUE, Tail(t))
    ELSE SignedDigits(t, FALSE, t)

Number(text) == NumberOfTrimmed(Trim(text))

\* function stripOrigin(url): new URL(url).pathname.slice(1), or url when the parse throws
\* a mutant of PathnameSlice1: the leading slash of the pathname is kept
PathnameUnsliced(url, u) == IF u.ok THEN u.pathname ELSE url

PathnameSlice1(url, u) == IF u.ok THEN Slice(u.pathname, 1, Len(u.pathname)) ELSE url

stripOrigin(url) == PathnameSlice1(url, ParseURL(url))

\* RawCallSite | undefined
NoRaw == [present |-> FALSE, url |-> <<>>, file |-> <<>>, line |-> 0, column |-> 0]
RawCallSite(url, file, line, column) ==
    [present |-> TRUE, url |-> url, file |-> file, line |-> line, column |-> column]

\* a mutant of isInternalFrame: only the Unix separators are looked for
isInternalFrameUnixOnly(file) ==
    \/ IncludesStr(file, <<"/", "l", "o", "g", "/">>)
    \/ IncludesStr(file, <<"/", "l", "o", "g", ".">>)
    \/ IncludesStr(file, <<"p", "l", "u", "g", "i", "n", "-", "l", "o", "g">>)

isInternalFrame(file) ==
    \/ IncludesStr(file, <<"/", "l", "o", "g", "/">>)
    \/ IncludesStr(file, <<"/", "l", "o", "g", ".">>)
    \/ IncludesStr(file, <<"\\", "l", "o", "g", "\\">>)
    \/ IncludesStr(file, <<"\\", "l", "o", "g", ".">>)
    \/ IncludesStr(file, <<"p", "l", "u", "g", "i", "n", "-", "l", "o", "g">>)

\* steps 7 to 9: the url and the two numbers around the colons
SiteOfNumbers(url, lineNumber, columnNumber) ==
    IF ~lineNumber.isInteger \/ ~columnNumber.isInteger THEN NoRaw
    ELSE RawCallSite(url, stripOrigin(url), lineNumber.value, columnNumber.value)

SiteAtColons(candidate, lastColon, secondLastColon) ==
    IF lastColon <= 0 THEN NoRaw
    ELSE IF secondLastColon <= 0 THEN NoRaw
    ELSE SiteOfNumbers(Slice(candidate, 0, secondLastColon),
                       Number(Slice(candidate, secondLastColon + 1, lastColon)),
                       Number(Slice(candidate, lastColon + 1, Len(candidate))))

SiteAtLastColon(candidate, lastColon) ==
    SiteAtColons(candidate, lastColon, LastIndexOfFrom(candidate, ":", lastColon - 1))

SiteOfCandidate(candidate) == SiteAtLastColon(candidate, LastIndexOf(candidate, ":"))

\* if (atIdx >= 0) candidate = candidate.slice(atIdx + 1)
AfterAt(candidate, atIdx) ==
    IF atIdx >= 0 THEN Slice(candidate, atIdx + 1, Len(candidate)) ELSE candidate

\* the text between the last '(' and the closing ')'
InParens(candidate) ==
    IF EndsWith(candidate, <<")">>) /\ Includes(candidate, "(")
    THEN Slice(candidate, LastIndexOf(candidate, "(") + 1, Len(candidate) - 1)
    ELSE candidate

\* if (candidate.startsWith('at ')) candidate = candidate.slice(3).trim()
WithoutAt(candidate) ==
    IF StartsWith(candidate, <<"a", "t", " ">>)
    THEN Trim(Slice(candidate, 3, Len(candidate)))
    ELSE candidate

\* a mutant of SiteAfterParens: the candidate is cut at its last '@'
SiteAfterParensLastAt(candidate) ==
    SiteOfCandidate(AfterAt(candidate, LastIndexOf(candidate, "@")))

\* const atIdx = candidate.indexOf('@'), and the rest of the function
SiteAfterParens(candidate) == SiteOfCandidate(AfterAt(candidate, IndexOf(candidate, "@")))

parseCallSiteLine(line) == SiteAfterParens(InParens(WithoutAt(Trim(line))))

\* new Error().stack, already cut at '\n'; some engines leave it undefined
NoStack == [present |-> FALSE, lines |-> <<>>]
Stack(lines) == [present |-> TRUE, lines |-> lines]

\* a mutant of SkipsFrame: internal frames are not skipped
SkipsFrameUnparsedOnly(parsed) == ~parsed.present

\* the body of the loop over the stack lines
SkipsFrame(parsed) == ~parsed.present \/ isInternalFrame(parsed.url)

RECURSIVE FirstCaller(_)
FirstCaller(lines) ==
    IF lines = <<>> THEN NoRaw
    ELSE IF SkipsFrame(parseCallSiteLine(Head(lines))) THEN FirstCaller(Tail(lines))
    ELSE parseCallSiteLine(Head(lines))

rawCallerLocation(stack) ==
    IF ~stack.present \/ stack.lines = <<>> THEN NoRaw ELSE FirstCaller(stack.lines)

\* the arguments of a log call: a string, a number, the object {}, undefined,
\* an object JSON.stringify rejects (a cycle) and one that String() rejects too
\* (a cycle in an object without toString)
StrArg(v) == [k |-> "str", v |-> v, n |-> 0]
NumArg(n) == [k |-> "num", v |-> <<>>, n |-> n]
EmptyObjectArg == [k |-> "object", v |-> <<>>, n |-> 0]
UndefinedArg == [k |-> "undefined", v |-> <<>>, n |-> 0]
CyclicArg == [k |-> "cyclic", v |-> <<>>, n |-> 0]
HostileArg == [k |-> "hostile", v |-> <<>>, n |-> 0]

Returned(v) == [threw |-> FALSE, v |-> v]
Threw == [threw |-> TRUE, v |-> <<>>]

\* JSON.stringify(arg, null, 2); the value undefined has no JSON text and joins as ''
JSONStringify(arg) ==
    CASE arg.k = "num" -> Returned(DecStr(arg.n))
      [] arg.k = "object" -> Returned(<<"{", "}">>)
      [] arg.k = "undefined" -> Returned(<<>>)
      [] OTHER -> Threw

\* String(arg)
StringOf(arg) ==
    CASE arg.k = "hostile" -> Threw
      [] arg.k = "num" -> Returned(DecStr(arg.n))
      [] arg.k = "str" -> Returned(arg.v)
      [] arg.k = "undefined" -> Returned(<<"u", "n", "d", "e", "f", "i", "n", "e", "d">>)
      [] OTHER -> Returned(<<"[", "o", "b", "j", "e", "c", "t", " ", "O", "b", "j", "e", "c", "t", "]">>)

\* a mutant of FormatArg: every argument goes through String()
FormatArgByString(arg) == StringOf(arg)

\* the callback of args.map in formatArgs
FormatArg(arg) ==
    IF arg.k = "str" THEN Returned(arg.v)
    ELSE IF ~JSONStringify(arg).threw THEN JSONStringify(arg)
    ELSE StringOf(arg)

formatArgs(message, args) ==
    IF Len(args) = 0 THEN Returned(message)
    ELSE IF \E i \in 1..Len(args) : FormatArg(args[i]).threw THEN Threw
    ELSE Returned(message \o <<" ">>
                  \o Join([i \in 1..Len(args) |-> FormatArg(args[i]).v], <<" ">>))

\* a mutant of prefix: the separator is left out
prefixWithoutSeparator(name) == name

\* const prefix = `${name}${SEP}`
prefix(name) == name \o <<SEP>>

\* the plugin-log function behind each method of the Logger
LoggerMethods == {"trace", "debug", "info", "warn", "error"}
FireFn(method) == method

\* a SourceMapConsumer answer: originalPositionFor throws, or yields line and source
PosThrows == [threw |-> TRUE, hasLine |-> FALSE, line |-> 0, hasSource |-> FALSE, source |-> <<>>]
Pos(hasLine, line, hasSource, source) ==
    [threw |-> FALSE, hasLine |-> hasLine, line |-> line, hasSource |-> hasSource, source |-> source]

\* resolveLocation after 'await getSourceMap(raw.url)'; consumer is "null" or a map
ResolvedLocation(raw, consumer, pos) ==
    IF consumer # "null" /\ pos.hasLine
    THEN [file |-> IF pos.hasSource /\ pos.source # <<>> THEN stripOrigin(pos.source) ELSE raw.file,
          line |-> pos.line]
    ELSE [file |-> raw.file, line |-> raw.line]

\* ---- inputs ----
LoggerNames == {<<"A">>, <<"A", SEP, "B">>}

UrlApp == <<"h", "t", "t", "p", ":", "/", "/", "h", ":", "1", "/", "s", "/", "A", ".", "v">>
FileApp == <<"s", "/", "A", ".", "v">>

Payloads == {ArrayPayload(<<StrItem(<<"m">>)>>),
             ArrayPayload(<<StrItem(<<"c", ":">>), NumItem(42)>>),
             ArrayPayload(<<StrItem(<<"m", SEP, "x">>)>>),
             ArrayPayload(<<LazyItem(<<"z">>), ThrowingItem>>),
             ArrayPayload(<<>>),
             LazyPayload(<<"t">>),
             ThrowingPayload}

CallSites == {NoCallSite, CallSite(UrlApp, 12, 5), CallSite(FileApp, 7, 1)}

\* ILogEvent of bit-log; willHandle is the verdict of AbstractBaseAppender.willHandle
Event(level, loggerName, payload, callSite, willHandle) ==
    [level |-> level, loggerName |-> loggerName, payload |-> payload,
     callSite |-> callSite, willHandle |-> willHandle]

DefaultName == <<"A">>
DefaultPayload == ArrayPayload(<<StrItem(<<"m">>)>>)

\* handle() derives the sink function from level alone, the text from loggerName
\* and payload, and the options from callSite alone: the events vary each of
\* the three groups over all its values, the other groups at their defaults
Events ==
    UNION { UNION {
      {Event(l, DefaultName, DefaultPayload, NoCallSite, w) : l \in Levels},
      {Event("INFO", n, p, NoCallSite, w) : n \in LoggerNames, p \in Payloads},
      {Event("INFO", DefaultName, DefaultPayload, c, w) : c \in CallSites}
    } : w \in BOOLEAN }

LineError == <<"E", "r", "r", "o", "r">>
LineLogV8 == <<" ", " ", " ", " ", "a", "t", " ", "f", " ", "(", "h", "t", "t", "p", ":", "/", "/", "h", ":", "1", "/", "l", "o", "g", "/", "i", ".", "t", "s", ":", "9", ":", "3", ")">>
LineAppV8 == <<" ", " ", " ", " ", "a", "t", " ", "h", "t", "t", "p", ":", "/", "/", "h", ":", "1", "/", "s", "/", "A", ".", "v", ":", "2", "0", ":", "7">>
LineLogWebKit == <<"f", "@", "h", "t", "t", "p", ":", "/", "/", "h", ":", "1", "/", "l", "o", "g", "/", "i", ".", "t", "s", ":", "9", ":", "3">>
LineMainWebKit == <<"g", "@", "h", "t", "t", "p", ":", "/", "/", "h", ":", "1", "/", "s", "/", "m", ".", "t", "s", ":", "1", "3", ":", "2">>

UrlMain == <<"h", "t", "t", "p", ":", "/", "/", "h", ":", "1", "/", "s", "/", "m", ".", "t", "s">>

StackV8 == Stack(<<LineError, LineLogV8, LineAppV8>>)
StackWebKit == Stack(<<LineLogWebKit, LineMainWebKit>>)
StackInternalOnly == Stack(<<LineError, LineLogV8>>)
Stacks == {StackV8, StackWebKit, StackInternalOnly, NoStack}

\* the URLs the cache can be asked for
Urls == {rawCallerLocation(st).url : st \in {x \in Stacks : rawCallerLocation(x).present}}

MsgArgs(msg, args) == [msg |-> msg, args |-> args]
Messages == {MsgArgs(<<"m">>, <<>>),
             MsgArgs(<<"c", ":">>, <<NumArg(42)>>),
             MsgArgs(<<"m", SEP, "x">>, <<>>),
             MsgArgs(<<"m">>, <<StrArg(<<"x">>), EmptyObjectArg>>),
             MsgArgs(<<"m">>, <<CyclicArg, UndefinedArg>>),
             MsgArgs(<<"m">>, <<HostileArg>>)}

\* one call logger.<method>(msg, ...args) on createLogger(name), made under stack
EmitInput(method, name, m, stack) ==
    [method |-> method, name |-> name, msg |-> m.msg, args |-> m.args, stack |-> stack]

\* fire() derives the sink function from the method alone, the text from name,
\* msg and args, and the call site from the stack alone: the calls vary each
\* of the three groups over all its values, the other groups at their defaults
EmitInputs ==
    UNION {
      {EmitInput(f, DefaultName, MsgArgs(<<"m">>, <<>>), StackV8) : f \in LoggerMethods},
      {EmitInput("info", n, MsgArgs(<<"m">>, <<>>), StackV8) : n \in LoggerNames},
      {EmitInput("info", DefaultName, m, StackV8) : m \in Messages},
      {EmitInput("info", DefaultName, MsgArgs(<<"m">>, <<>>), st) : st \in Stacks}
    }

\* what the fetch of a script and the decoding of its inline map can come to
FetchOutcomes == {"rejected", "nomap", "badmap", "map"}

SourceFile == <<"s", "r", "c", "/", "a", ".", "t", "s">>
\* what consumer.originalPositionFor can answer
QueryResults == {Pos(TRUE, 42, TRUE, SourceFile), Pos(TRUE, 42, TRUE, UrlMain),
                 Pos(TRUE, 42, FALSE, <<>>), Pos(FALSE, 0, FALSE, <<>>), PosThrows}
NoQuery == Pos(FALSE, 0, FALSE, <<>>)

Impls == {"TauriAppender", "createLogger"}

\* ---- App.vue: the state after setup ----
\* a GameStatus of the backend, and the null of 'ref<GameStatus | null>(null)'
GameStatus(installed, entitlements_ok, mod_available, game_running) ==
    [present |-> TRUE, installed |-> installed, entitlements_ok |-> entitlements_ok,
     mod_available |-> mod_available, game_running |-> game_running]
NoStatus ==
    [present |-> FALSE, installed |-> FALSE, entitlements_ok |-> FALSE,
     mod_available |-> FALSE, game_running |-> FALSE]
NoError == "null"
\* let pollTimer = null
NoTimer == 0
ActionCommands == {"patch_entitlements", "launch_game"}

InitApp ==
    /\ status = NoStatus
    /\ error = NoError
    /\ actionError = NoError
    /\ actionPending = FALSE
    /\ pollTimer = NoTimer
    /\ intervals = {}
    /\ timerSeq = 0
    /\ timeouts = 0
    /\ statusCalls = 0
    /\ invoking = [c \in ActionCommands |-> 0]
    /\ phase = "setup"
    /\ launchUnseen = FALSE
    /\ nClick = 0
    /\ nTick = 0

\* ---- scripts/build.ts: the process before its first statement ----
\* process.argv[2] when the script is started without argument
NoArgument == "(none)"

InitBuild ==
    /\ command = NoArgument
    /\ platform = "none"
    /\ handler = "undefined"
    /\ todo = <<>>
    /\ started = <<>>
    /\ completed = <<>>
    /\ stage = "start"
    /\ exitStatus = 0

Idle == [op |-> "none"]

Init ==
    /\ impl \in Impls
    /\ disabled = [a \in Appenders |-> FALSE]
    /\ inflight = [a \in Appenders |-> 0]
    /\ nHandle = 0
    /\ nInvoked = [a \in Appenders |-> 0]
    /\ nFailed = [a \in Appenders |-> 0]
    /\ overlap = [a \in Appenders |-> 0]
    /\ sourceMapCache = [u \in Urls |-> "undefined"]
    /\ pend = <<>>
    /\ microtasks = <<>>
    /\ nEmit = 0
    /\ nFetch = [u \in Urls |-> 0]
    /\ unhandled = FALSE
    /\ nSunk = 0
    /\ cur = Idle
    /\ sunk = <<>>
    /\ InitApp
    /\ InitBuild

\* a mutant of HandleSkips: the disabled flag is not consulted
HandleSkipsIgnoringDisabled(a, event) == ~event.willHandle

\* if (this.disabled || !this.willHandle(event)) return;
HandleSkips(a, event) == disabled[a] \/ ~event.willHandle

\* TauriAppender.handle up to its 'await logFn(text, options)'
Handle(a, event) ==
    /\ impl = "TauriAppender"
    /\ nHandle < MaxHandle
    /\ nHandle' = nHandle + 1
    /\ cur' = [op |-> "handle", app |-> a, event |-> event]
    /\ IF HandleSkips(a, event)
       THEN /\ sunk' = <<>>
            /\ UNCHANGED <<inflight, nInvoked>>
       ELSE /\ sunk' = <<Invocation(HandleLogFn(event.level), HandleText(event),
                                    HandleOptions(event))>>
            /\ inflight' = [inflight EXCEPT ![a] = @ + 1]
            /\ nInvoked' = [nInvoked EXCEPT ![a] = @ + 1]
    /\ UNCHANGED <<impl, appVars, buildVars, disabled, nFailed, overlap, loggerVars>>

\* a mutant of DisabledAfterAwait: the flag follows the outcome of the last delivery
DisabledFollowsOutcome(a, rejected) == rejected

\* try { await logFn(text, options); } catch { this.disabled = true; }
DisabledAfterAwait(a, rejected) == IF rejected THEN TRUE ELSE disabled[a]

\* a mutant of HandleOutcome: the await is not wrapped in try/catch
HandleOutcomeWithoutCatch(rejected) == IF rejected THEN "rejected" ELSE "fulfilled"

\* the promise handle() returns: the catch block swallows the rejection of logFn
HandleOutcome(rejected) == "fulfilled"

\* the promise of logFn settles and handle() resumes after its await
HandleSettle(a, rejected) ==
    /\ inflight[a] > 0
    /\ inflight' = [inflight EXCEPT ![a] = @ - 1]
    /\ cur' = [op |-> "settle", app |-> a, rejected |-> rejected,
               outcome |-> HandleOutcome(rejected)]
    /\ sunk' = <<>>
    /\ disabled' = [disabled EXCEPT ![a] = DisabledAfterAwait(a, rejected)]
    /\ nFailed' = [nFailed EXCEPT ![a] = IF rejected THEN @ + 1 ELSE @]
    /\ overlap' = [overlap EXCEPT ![a] = IF rejected /\ nFailed[a] = 0
                                         THEN inflight[a] - 1 ELSE @]
    /\ UNCHANGED <<impl, appVars, buildVars, nHandle, nInvoked, loggerVars>>

\* ---- createLogger: the emit call and its promise chain ----
RemoveAt(q, i) == SubSeq(q, 1, i - 1) \o SubSeq(q, i + 1, Len(q))

IndexOfId(id) == CHOOSE i \in 1..Len(pend) : pend[i].id = id

\* the consumer getSourceMap returns once the fetched text has been scanned:
\* a rejected fetch, a text without inline map and a map that fails to decode
\* or parse all give null
\* a mutant of ConsumerAfterFetch: a failed or map-less fetch leaves no entry
ConsumerAfterFetchWithoutMarker(outcome) == IF outcome = "map" THEN "consumer" ELSE "undefined"

ConsumerAfterFetch(outcome) == IF outcome = "map" THEN "consumer" ELSE "null"

\* a mutant of FireLocationArg: the raw call site is passed on instead of the
\* resolved location
FireRawLocationArg(raw, location) == Options(raw.file, raw.line)

\* fn(text, location) in the callback of resolveLocation(raw).then
FireLocationArg(raw, location) == Options(location.file, location.line)

\* a mutant of FireOptionsWithoutRaw: an empty location object is passed
FireEmptyLocationWithoutRaw == Options(<<>>, 0)

\* fn(text) when no caller frame was found
FireOptionsWithoutRaw == NoOptions

\* a mutant of PcAtReturn: the fetch is waited for inside the call
PcAfterBlockingFetch(raw, cached) ==
    IF ~raw.present THEN "deliver" ELSE "resume"

\* where fire() leaves its promise chain when it returns: at the pending sink
\* promise, at the queued continuation of a cache hit, or at the pending fetch
PcAtReturn(raw, cached) ==
    IF ~raw.present THEN "deliver"
    ELSE IF cached # "undefined" THEN "resume"
    ELSE "fetch"

\* a mutant of RejectionHandled: the rejection of the sink promise is left unhandled
RejectionUnhandled == FALSE

\* .catch(() => {}) on the sink promise and on the resolveLocation chain
RejectionHandled == TRUE

\* const text = `${prefix}${formatArgs(msg, args)}`
FireText(name, formatted) == prefix(name) \o formatted.v

\* what the closure of fire() holds for the rest of the promise chain
PendingEmit(id, input, raw, formatted, pc, consumer, hit) ==
    [id |-> id, input |-> input, fn |-> FireFn(input.method),
     text |-> FireText(input.name, formatted), raw |-> raw, pc |-> pc, consumer |-> consumer,
     hit |-> hit]

\* if (cached !== undefined) return cached, for the call site of this call
CachedAtCall(raw, cached) == raw.present /\ cached # "undefined"

\* a mutant of Enqueue: the latest continuation runs first
EnqueueFirst(q, id) == <<id>> \o q

\* the continuation of 'await getSourceMap(raw.url)' joins the microtask queue,
\* which runs its jobs first in, first out
Enqueue(q, id) == Append(q, id)

\* the body of fire() once raw and the formatted message are known; cached is
\* sourceMapCache.get(raw.url)
Fire(id, input, raw, formatted, cached) ==
    IF formatted.threw
    THEN \* the exception of formatArgs leaves fire() and the emit call
         /\ cur' = [op |-> "emit", id |-> id, input |-> input, outcome |-> "threw",
                    fetchStarted |-> FALSE]
         /\ sunk' = <<>>
         /\ UNCHANGED <<sourceMapCache, pend, microtasks, nFetch, nSunk>>
    ELSE /\ cur' = [op |-> "emit", id |-> id, input |-> input, outcome |-> "returned",
                    fetchStarted |-> raw.present /\ cached = "undefined"]
         /\ pend' = Append(pend, PendingEmit(id, input, raw, formatted, PcAtReturn(raw, cached),
                                             IF cached = "undefined" THEN "null" ELSE cached,
                                             CachedAtCall(raw, cached)))
         /\ IF ~raw.present
            THEN /\ sunk' = <<Invocation(FireFn(input.method), FireText(input.name, formatted),
                                         FireOptionsWithoutRaw)>>
                 /\ nSunk' = nSunk + 1
                 /\ UNCHANGED <<sourceMapCache, microtasks, nFetch>>
            ELSE /\ sunk' = <<>>
                 /\ UNCHANGED nSunk
                 /\ IF cached # "undefined"
                    THEN \* getSourceMap returns the cached entry
                         /\ microtasks' = Enqueue(microtasks, id)
                         /\ UNCHANGED <<sourceMapCache, nFetch>>
                    ELSE \* getSourceMap is suspended at 'await fetch(url)'
                         /\ nFetch' = [nFetch EXCEPT ![raw.url] = @ + 1]
                         /\ UNCHANGED <<sourceMapCache, microtasks>>

\* a mutant of CachedFor: the cache is never consulted
CachedForNothing(raw) == "undefined"

\* sourceMapCache.get(url) for the call site found, if any
CachedFor(raw) == IF raw.present THEN sourceMapCache[raw.url] ELSE "undefined"

\* rawCallerLocation() and formatArgs(msg, args) tabulated over the inputs of the
\* model, so that each is computed once
CallerOfStack == [st \in Stacks |-> rawCallerLocation(st)]
FormattedMessage == [m \in Messages |-> formatArgs(m.msg, m.args)]

FireAt(id, input, raw) ==
    Fire(id, input, raw, FormattedMessage[MsgArgs(input.msg, input.args)], CachedFor(raw))

\* one call logger.<method>(msg, ...args): fire(fn, msg, args) up to its return
Emit(input) ==
    /\ impl = "createLogger"
    /\ nEmit < MaxEmit
    /\ nEmit' = nEmit + 1
    /\ FireAt(nEmit + 1, input, CallerOfStack[input.stack])
    /\ UNCHANGED <<impl, appVars, buildVars, appenderVars, unhandled>>

\* the fetch of getSourceMap completes or fails: the cache entry is written and
\* the continuation of resolveLocation is queued
FetchSettle(i, outcome) ==
    /\ i \in 1..Len(pend)
    /\ pend[i].pc = "fetch"
    /\ microtasks = <<>>
    /\ sourceMapCache' = [sourceMapCache EXCEPT ![pend[i].raw.url] = ConsumerAfterFetch(outcome)]
    /\ pend' = [pend EXCEPT ![i].pc = "resume", ![i].consumer = ConsumerAfterFetch(outcome)]
    /\ microtasks' = Enqueue(microtasks, pend[i].id)
    /\ cur' = [op |-> "fetched", id |-> pend[i].id, outcome |-> outcome]
    /\ sunk' = <<>>
    /\ UNCHANGED <<impl, appVars, buildVars, appenderVars, nEmit, nFetch, unhandled, nSunk>>

\* the continuation of emit e, entry i of pend, with the resolved location
ResumeWith(i, e, pos, location) ==
    /\ (e.consumer = "null") => pos = NoQuery
    /\ IF e.consumer # "null" /\ pos.threw
       THEN \* resolveLocation rejects; the outer .catch(() => {}) swallows it
            /\ pend' = RemoveAt(pend, i)
            /\ sunk' = <<>>
            /\ unhandled' = (unhandled \/ ~RejectionHandled)
            /\ UNCHANGED nSunk
            /\ cur' = [op |-> "resume", id |-> e.id, input |-> e.input, raw |-> e.raw,
                       consumer |-> e.consumer, pos |-> pos,
                       location |-> location, outcome |-> "dropped"]
       ELSE /\ pend' = [pend EXCEPT ![i].pc = "deliver"]
            /\ sunk' = <<Invocation(e.fn, e.text, FireLocationArg(e.raw, location))>>
            /\ UNCHANGED unhandled
            /\ nSunk' = nSunk + 1
            /\ cur' = [op |-> "resume", id |-> e.id, input |-> e.input, raw |-> e.raw,
                       consumer |-> e.consumer, pos |-> pos,
                       location |-> location, outcome |-> "invoked"]

ResumeEntry(i, pos) ==
    ResumeWith(i, pend[i], pos, ResolvedLocation(pend[i].raw, pend[i].consumer, pos))

\* resolveLocation resumes after 'await getSourceMap' and its then-callback
\* calls the sink; pos is the answer of originalPositionFor, when it is asked
Resume(pos) ==
    /\ microtasks # <<>>
    /\ ResumeEntry(IndexOfId(Head(microtasks)), pos)
    /\ microtasks' = Tail(microtasks)
    /\ UNCHANGED <<impl, appVars, buildVars, appenderVars, sourceMapCache, nEmit, nFetch>>

\* the promise of the sink function settles; .catch(() => {}) handles a rejection
DeliverSettle(i, rejected) ==
    /\ i \in 1..Len(pend)
    /\ pend[i].pc = "deliver"
    /\ microtasks = <<>>
    /\ pend' = RemoveAt(pend, i)
    /\ cur' = [op |-> "delivered", id |-> pend[i].id, rejected |-> rejected]
    /\ sunk' = <<>>
    /\ unhandled' = (unhandled \/ (rejected /\ ~RejectionHandled))
    /\ UNCHANGED <<impl, appVars, buildVars, appenderVars, sourceMapCache, microtasks, nEmit, nFetch, nSunk>>

Next ==
    \/ \E a \in Appenders, event \in Events : Handle(a, event)
    \/ \E a \in Appenders, rejected \in BOOLEAN : HandleSettle(a, rejected)
    \/ \E input \in EmitInputs : Emit(input)
    \/ \E i \in 1..MaxEmit, outcome \in FetchOutcomes : FetchSettle(i, outcome)
    \/ \E pos \in QueryResults : Resume(pos)
    \/ \E i \in 1..MaxEmit, rejected \in BOOLEAN : DeliverSettle(i, rejected)

Spec == Init /\ [][Next]_vars

\* ---- the order of sink invocations ----
\* calls of one logger that differ in their call site only: a frame of A.v,
\* a frame of m.ts, and no usable frame
OrderStacks == {StackV8, StackWebKit, NoStack}
OrderInputs == {EmitInput("info", DefaultName, MsgArgs(<<"m">>, <<>>), st) : st \in OrderStacks}
OrderFetchOutcomes == {"rejected", "map"}
OrderQueryResults == {Pos(TRUE, 42, TRUE, SourceFile), PosThrows}

InitOrder == Init /\ impl = "createLogger"

\* one call logger.info('m') from one of the call sites
EmitOrdered(input) ==
    /\ nEmit < MaxOrderEmit
    /\ nEmit' = nEmit + 1
    /\ FireAt(nEmit + 1, input, CallerOfStack[input.stack])
    /\ UNCHANGED <<impl, appVars, buildVars, appenderVars, unhandled>>

NextOrder ==
    \/ \E input \in OrderInputs : EmitOrdered(input)
    \/ \E i \in 1..MaxOrderEmit, outcome \in OrderFetchOutcomes : FetchSettle(i, outcome)
    \/ \E pos \in OrderQueryResults : Resume(pos)
    \/ \E i \in 1..MaxOrderEmit, rejected \in BOOLEAN : DeliverSettle(i, rejected)

SpecOrder == InitOrder /\ [][NextOrder]_vars

\* ---- the pure functions of log/index.ts, applied one at a time ----

\* urls of stack frames: a plain one, one inside a scoped package, one with
\* parentheses and a Windows path
UrlScoped == <<"h", "t", "t", "p", ":", "/", "/", "h", ":", "1", "/", "@", "t", "/", "p", ".", "t", "s">>
UrlParens == <<"h", "t", "t", "p", ":", "/", "/", "h", ":", "1", "/", "s", "/", "a", "(", "b", ")", ".", "v">>
UrlWindows == <<"C", ":", "\\", "s", "\\", "A", ".", "v">>
FrameUrls == {UrlApp, UrlScoped, UrlParens, UrlWindows}

\* the three shapes of a stack line: V8 with function name, V8 bare, WebKit
FrameForms == {"v8fn", "v8bare", "webkit"}
FramePads == {<<>>, <<" ", " ">>}
FrameLines == {1, 20}
FrameColumns == {1, 7}

Frame(form, url, line, column, pad) ==
    [form |-> form, url |-> url, line |-> line, column |-> column, pad |-> pad]
NoFrame == Frame("none", <<>>, 0, 0, <<>>)

\* <url>:<line>:<col>
FramePosition(f) == f.url \o <<":">> \o DecStr(f.line) \o <<":">> \o DecStr(f.column)

\* the text of the stack line an engine prints for the frame
FrameText(f) ==
    f.pad
    \o (CASE f.form = "v8fn" -> <<"a", "t", " ", "f", " ", "(">> \o FramePosition(f) \o <<")">>
          [] f.form = "v8bare" -> <<"a", "t", " ">> \o FramePosition(f)
          [] f.form = "webkit" -> <<"f", "@">> \o FramePosition(f))
    \o f.pad

Frames ==
    {Frame(form, url, line, column, pad) :
        form \in FrameForms, url \in FrameUrls, line \in FrameLines,
        column \in FrameColumns, pad \in FramePads}

\* lines that do not end in two colon-delimited integers
MalformedLines ==
    {<<>>,
     <<"E", "r", "r", "o", "r", ":", " ", "x">>,
     <<"a", "t", " ", "f", " ", "(", "h", ")">>,
     <<"a", "t", " ", "h", "t", "t", "p", ":", "/", "/", "h", ":", "1", "/", "s", "/", "A", ".", "v", ":", ":", "7">>,
     <<"a", "t", " ", "h", "t", "t", "p", ":", "/", "/", "h", ":", "1", "/", "s", "/", "A", ".", "v", ":", "9", ":">>,
     <<"a", "t", " ", "h", "t", "t", "p", ":", "/", "/", "h", ":", "1", "/", "s", "/", "A", ".", "v", ":", "x", ":", "7">>,
     <<"f", "@", "h", "t", "t", "p", ":", "/", "/", "h", ":", "1", "/", "s", "/", "A", ".", "v", ":", "9", ":", "y">>,
     <<"f", "@", "h", "t", "t", "p", ":", "/", "/", "h", ":", "1", "/", "s", "/", "A", ".", "v", ":", "9">>,
     <<"a", "t", " ", "h", "t", "t", "p", ":", "/", "/", "h", ":", "1", "/", "s", "/", "A", ".", "v">>,
     <<"a", "t", " ", "f", " ", "(", "s", "/", "A", ".", "v", ":", ":", ")">>}

ParseInput(line, frame, wellFormed) == [line |-> line, frame |-> frame, wellFormed |-> wellFormed]
ParseInputs ==
    {ParseInput(FrameText(f), f, TRUE) : f \in Frames}
    \cup {ParseInput(t, NoFrame, FALSE) : t \in MalformedLines}

\* paths of stack frames: a location, a directory or file token, a file ending
InternalMarkers == {<<"/", "l", "o", "g", "/">>, <<"/", "l", "o", "g", ".">>, <<"\\", "l", "o", "g", "\\">>, <<"\\", "l", "o", "g", ".">>, <<"p", "l", "u", "g", "i", "n", "-", "l", "o", "g">>}
WordTokens == {<<"/", "d", "i", "a", "l", "o", "g", ".">>, <<"/", "l", "o", "g", "i", "n", ".">>, <<"/", "b", "l", "o", "g", "/">>, <<"\\", "c", "a", "t", "a", "l", "o", "g", "\\">>, <<"/", "A", "p", "p", ".">>, <<"/", "m", "a", "i", "n", ".">>}
PathStarts == {<<"h", "t", "t", "p", ":", "/", "/", "h", ":", "1", "/", "s">>, <<"C", ":", "\\", "s">>, <<>>}
PathEnds == {<<"t", "s">>, <<"i", ".", "t", "s">>}
FramePath(start, mid, end) == [path |-> start \o mid \o end, mid |-> mid]
FramePaths ==
    {FramePath(start, mid, end) :
        start \in PathStarts, mid \in InternalMarkers \cup WordTokens, end \in PathEnds}

\* arguments of stripOrigin: relative paths, and absolute URLs put together
\* from scheme, host with port, path and an optional query or fragment
PlainPaths == {FileApp, SourceFile, <<"a", ".", "t", "s">>}
RelativePaths == PlainPaths \cup {<<".", "/", "a", ".", "t", "s">>, <<"x", ":", "y", "/", "z", ".", "t", "s">>}
OriginSchemes == {<<"h", "t", "t", "p">>, <<"h", "t", "t", "p", "s">>}
OriginHosts == {<<"h", ":", "1">>, <<"h">>}
UrlSuffixes == {<<>>, <<"?", "t", "=", "1">>, <<"#", "x">>}
StripInput(kind, text, path, suffix) ==
    [kind |-> kind, text |-> text, path |-> path, suffix |-> suffix]
StripInputs ==
    {StripInput("relative", path, path, <<>>) : path \in RelativePaths}
    \cup {StripInput("absolute", scheme \o <<":", "/", "/">> \o host \o <<"/">> \o path \o suffix,
                     path, suffix) :
             scheme \in OriginSchemes, host \in OriginHosts,
             path \in PlainPaths, suffix \in UrlSuffixes}

\* the state before any function has been applied
InitPure == Init

\* parseCallSiteLine(line)
ParseLine(x) ==
    /\ impl = "createLogger"
    /\ cur' = [op |-> "parseCallSiteLine", line |-> x.line, frame |-> x.frame,
               wellFormed |-> x.wellFormed, out |-> parseCallSiteLine(x.line)]
    /\ UNCHANGED <<impl, appVars, buildVars, appenderVars, loggerVars, sunk>>

\* isInternalFrame(file)
ClassifyFrame(x) ==
    /\ impl = "createLogger"
    /\ cur' = [op |-> "isInternalFrame", path |-> x.path, mid |-> x.mid,
               out |-> isInternalFrame(x.path)]
    /\ UNCHANGED <<impl, appVars, buildVars, appenderVars, loggerVars, sunk>>

\* stripOrigin(url) of log/index.ts, once and on its own result
StripOrigin(x) ==
    /\ impl = "createLogger"
    /\ cur' = [op |-> "stripOrigin", arg |-> x, out |-> stripOrigin(x.text),
               twice |-> stripOrigin(stripOrigin(x.text))]
    /\ UNCHANGED <<impl, appVars, buildVars, appenderVars, loggerVars, sunk>>

\* stripOrigin(file) of the TauriAppender module, once and on its own result
AppenderStrip(x) ==
    /\ impl = "TauriAppender"
    /\ cur' = [op |-> "stripOrigin", arg |-> x, out |-> AppenderStripOrigin(x.text),
               twice |-> AppenderStripOrigin(AppenderStripOrigin(x.text))]
    /\ UNCHANGED <<impl, appVars, buildVars, appenderVars, loggerVars, sunk>>

\* arguments of formatArgs: a message and up to two further arguments
FormatMessages == {<<"m">>, <<"c", "o", "u", "n", "t", ":">>, <<>>}
ArgValues == {StrArg(<<"x">>), StrArg(<<>>), NumArg(42), EmptyObjectArg, UndefinedArg,
              CyclicArg, HostileArg}
ArgLists ==
    {<<>>} \cup {<<a>> : a \in ArgValues} \cup {<<a, b>> : a \in ArgValues, b \in ArgValues}
FormatInputs == {MsgArgs(message, args) : message \in FormatMessages, args \in ArgLists}

\* captured stacks: no stack, and up to three lines in any order
StackLines == {LineError, LineLogV8, LineAppV8, LineLogWebKit, LineMainWebKit}
CapturedStacks ==
    {NoStack, Stack(<<>>)}
    \cup {Stack(<<a>>) : a \in StackLines}
    \cup {Stack(<<a, b>>) : a \in StackLines, b \in StackLines}
    \cup {Stack(<<a, b, c>>) : a \in StackLines, b \in StackLines, c \in StackLines}

\* formatArgs(message, args)
FormatArgs(x) ==
    /\ impl = "createLogger"
    /\ cur' = [op |-> "formatArgs", message |-> x.msg, args |-> x.args,
               out |-> formatArgs(x.msg, x.args)]
    /\ UNCHANGED <<impl, appVars, buildVars, appenderVars, loggerVars, sunk>>

\* rawCallerLocation() under a captured stack
CallerLocation(stack) ==
    /\ impl = "createLogger"
    /\ cur' = [op |-> "rawCallerLocation", stack |-> stack, out |-> rawCallerLocation(stack)]
    /\ UNCHANGED <<impl, appVars, buildVars, appenderVars, loggerVars, sunk>>

NextPure ==
    \/ \E x \in ParseInputs : ParseLine(x)
    \/ \E x \in FramePaths : ClassifyFrame(x)
    \/ \E x \in StripInputs : StripOrigin(x)
    \/ \E x \in StripInputs : AppenderStrip(x)
    \/ \E x \in FormatInputs : FormatArgs(x)
    \/ \E stack \in CapturedStacks : CallerLocation(stack)

SpecPure == InitPure /\ [][NextPure]_vars

\* ---- App.vue: status polling and the two actions ----
\* the responses of get_game_status: not installed, entitlements missing, mod
\* missing, ready to launch, and running
GameStatuses ==
    {GameStatus(FALSE, FALSE, FALSE, FALSE), GameStatus(TRUE, FALSE, TRUE, FALSE),
     GameStatus(TRUE, TRUE, FALSE, FALSE), GameStatus(TRUE, TRUE, TRUE, FALSE),
     GameStatus(TRUE, TRUE, TRUE, TRUE)}

\* const canLaunch = computed(...)
canLaunch ==
    /\ status.present
    /\ status.installed
    /\ status.entitlements_ok
    /\ status.mod_available
    /\ ~status.game_running

\* const canPatchEntitlements = computed(...)
canPatchEntitlements == status.present /\ status.installed /\ ~status.game_running

\* <section v-else-if="status"> after <p v-if="error">
SectionShown == error = NoError /\ status.present

\* a mutant of ButtonDisabled: the buttons ignore actionPending
ButtonNeverDisabled(pending) == FALSE

\* :disabled="actionPending"
ButtonDisabled(pending) == pending

\* the Fix / Re-apply button is rendered and enabled
FixButtonEnabled ==
    /\ phase = "mounted"
    /\ SectionShown
    /\ status.installed
    /\ canPatchEntitlements
    /\ ~ButtonDisabled(actionPending)

\* the Launch Game button is rendered and enabled
LaunchButtonEnabled ==
    /\ phase = "mounted"
    /\ SectionShown
    /\ status.installed
    /\ ~(~canLaunch \/ ButtonDisabled(actionPending))

\* a mutant of StartPollingReturns: startPolling never returns early
StartPollingNeverReturns(timer) == FALSE

\* if (pollTimer) return, in startPolling
StartPollingReturns(timer) == timer # NoTimer

\* startPolling()
startPolling ==
    IF StartPollingReturns(pollTimer)
    THEN UNCHANGED <<pollTimer, intervals, timerSeq>>
    ELSE /\ timerSeq' = timerSeq + 1
         /\ pollTimer' = timerSeq + 1
         /\ intervals' = intervals \cup {timerSeq + 1}

\* stopPolling()
stopPolling ==
    IF pollTimer = NoTimer
    THEN UNCHANGED <<pollTimer, intervals>>
    ELSE /\ intervals' = intervals \ {pollTimer}
         /\ pollTimer' = NoTimer

\* a mutant of GameEnded: a response never stops the polling
GameNeverEnded(result) == FALSE

\* if (!result.game_running && pollTimer)
GameEnded(result) == ~result.game_running /\ pollTimer # NoTimer

\* a mutant of ErrorAfterResponse: a response that succeeds clears the error
ErrorClearedByResponse(ok) == IF ok THEN NoError ELSE "e"

\* error.value after a response of get_game_status: String(err) when it failed
ErrorAfterResponse(ok) == IF ok THEN error ELSE "e"

\* onMounted: refreshStatus()
Mount ==
    /\ phase = "setup"
    /\ phase' = "mounted"
    /\ statusCalls' = statusCalls + 1
    /\ cur' = [op |-> "mount"]
    /\ UNCHANGED <<status, error, actionError, actionPending, pollTimer, intervals, timerSeq,
                   timeouts, invoking, launchUnseen, nClick, nTick>>
    /\ UNCHANGED <<impl, appenderVars, loggerVars, sunk, buildVars>>

\* onUnmounted: stopPolling()
Unmount ==
    /\ phase = "mounted"
    /\ phase' = "unmounted"
    /\ stopPolling
    /\ cur' = [op |-> "unmount"]
    /\ UNCHANGED <<status, error, actionError, actionPending, timerSeq, timeouts, statusCalls,
                   invoking, launchUnseen, nClick, nTick>>
    /\ UNCHANGED <<impl, appenderVars, loggerVars, sunk, buildVars>>

\* fixEntitlements() and launchGame() up to their return: the invoke is started
StartAction(c) ==
    /\ nClick < MaxClick
    /\ nClick' = nClick + 1
    /\ actionPending' = TRUE
    /\ actionError' = NoError
    /\ invoking' = [invoking EXCEPT ![c] = @ + 1]
    /\ cur' = [op |-> "click", command |-> c, unseen |-> launchUnseen]
    /\ UNCHANGED <<status, error, pollTimer, intervals, timerSeq, timeouts, statusCalls, phase,
                   launchUnseen, nTick>>
    /\ UNCHANGED <<impl, appenderVars, loggerVars, sunk, buildVars>>

\* a click on the Fix / Re-apply button
fixEntitlements == FixButtonEnabled /\ StartAction("patch_entitlements")

\* a click on the Launch Game button
launchGame == LaunchButtonEnabled /\ StartAction("launch_game")

\* the invoke of an action settles: .then or .catch, and .finally
ActionSettle(c, ok) ==
    /\ invoking[c] > 0
    /\ invoking' = [invoking EXCEPT ![c] = @ - 1]
    /\ actionPending' = FALSE
    /\ actionError' = IF ok THEN actionError ELSE "e"
    /\ statusCalls' = IF ok /\ c = "patch_entitlements" THEN statusCalls + 1 ELSE statusCalls
    /\ timeouts' = IF ok /\ c = "launch_game" THEN timeouts + 1 ELSE timeouts
    /\ launchUnseen' = IF ok /\ c = "launch_game" THEN TRUE ELSE launchUnseen
    /\ cur' = [op |-> "settled", command |-> c, ok |-> ok]
    /\ UNCHANGED <<status, error, pollTimer, intervals, timerSeq, phase, nClick, nTick>>
    /\ UNCHANGED <<impl, appenderVars, loggerVars, sunk, buildVars>>

\* the callback of setTimeout in launchGame: refreshStatus(); startPolling()
LaunchDelayElapsed ==
    /\ timeouts > 0
    /\ timeouts' = timeouts - 1
    /\ statusCalls' = statusCalls + 1
    /\ startPolling
    /\ cur' = [op |-> "launchDelay"]
    /\ UNCHANGED <<status, error, actionError, actionPending, invoking, phase, launchUnseen,
                   nClick, nTick>>
    /\ UNCHANGED <<impl, appenderVars, loggerVars, sunk, buildVars>>

\* an interval that was not cleared fires: refreshStatus()
PollTick ==
    /\ intervals # {}
    /\ nTick < MaxTick
    /\ nTick' = nTick + 1
    /\ statusCalls' = statusCalls + 1
    /\ cur' = [op |-> "tick"]
    /\ UNCHANGED <<status, error, actionError, actionPending, pollTimer, intervals, timerSeq,
                   timeouts, invoking, phase, launchUnseen, nClick>>
    /\ UNCHANGED <<impl, appenderVars, loggerVars, sunk, buildVars>>

\* get_game_status answers: the .then callback of refreshStatus
StatusReceived(result) ==
    /\ statusCalls > 0
    /\ statusCalls' = statusCalls - 1
    /\ status' = result
    /\ error' = ErrorAfterResponse(TRUE)
    /\ IF GameEnded(result) THEN stopPolling ELSE UNCHANGED <<pollTimer, intervals>>
    /\ launchUnseen' = FALSE
    /\ cur' = [op |-> "status", ok |-> TRUE, result |-> result, stopped |-> GameEnded(result)]
    /\ UNCHANGED <<actionError, actionPending, timerSeq, timeouts, invoking, phase, nClick, nTick>>
    /\ UNCHANGED <<impl, appenderVars, loggerVars, sunk, buildVars>>

\* get_game_status fails: the .catch callback of refreshStatus
StatusFailed ==
    /\ statusCalls > 0
    /\ statusCalls' = statusCalls - 1
    /\ error' = ErrorAfterResponse(FALSE)
    /\ cur' = [op |-> "status", ok |-> FALSE, result |-> NoStatus, stopped |-> FALSE]
    /\ UNCHANGED <<status, actionError, actionPending, pollTimer, intervals, timerSeq, timeouts,
                   invoking, phase, launchUnseen, nClick, nTick>>
    /\ UNCHANGED <<impl, appenderVars, loggerVars, sunk, buildVars>>

InitComponent == Init /\ impl = "createLogger"

NextApp ==
    \/ Mount
    \/ Unmount
    \/ fixEntitlements
    \/ launchGame
    \/ \E c \in ActionCommands, ok \in BOOLEAN : ActionSettle(c, ok)
    \/ LaunchDelayElapsed
    \/ PollTick
    \/ \E result \in GameStatuses : StatusReceived(result)
    \/ StatusFailed

SpecApp == InitComponent /\ [][NextApp]_vars

\* ---- scripts/build.ts: the dispatch and the handlers ----
\* const PLATFORM_CONFIG: the platforms that have an entry
PLATFORM_CONFIG == {"darwin"}
Platforms == {"darwin", "linux", "win32"}

\* const COMMANDS: the handler of every command
COMMANDS ==
    [typecheck |-> "typecheck"] @@
    ("typecheck:frontend" :> "typecheckFrontend") @@
    ("typecheck:backend" :> "typecheckBackend") @@
    [test |-> "testAll"] @@
    ("test:frontend" :> "testFrontend") @@
    ("test:frontend:watch" :> "testFrontendWatch") @@
    ("test:frontend:coverage" :> "testFrontendCoverage") @@
    ("test:backend" :> "testBackend") @@
    ("test:backend:coverage" :> "testBackendCoverage") @@
    [build |-> "buildApp"] @@
    ("build:mod" :> "buildMod") @@
    ("build:app" :> "buildApp") @@
    [icons |-> "icons", dev |-> "dev"]

\* the properties COMMANDS inherits from Object.prototype: functions that
\* return when called without receiver, and members whose call throws
InheritedCallable == {"toString", "constructor"}
InheritedThrowing == {"hasOwnProperty", "valueOf", "__proto__"}

\* the values of process.argv[2]
Arguments == DOMAIN COMMANDS \cup InheritedCallable \cup InheritedThrowing
             \cup {"deploy", NoArgument}

\* COMMANDS[command]: a property lookup on a plain object
CommandsLookup(c) ==
    IF c \in DOMAIN COMMANDS THEN COMMANDS[c]
    ELSE IF c \in InheritedCallable \cup InheritedThrowing THEN "Object.prototype." \o c
    ELSE "undefined"

\* the steps of buildMod: the platform test, the output directory, xmake, the copy
BuildModSteps == <<"platform", "mkdirSync", "xmake build", "cpSync">>

\* buildApp: buildMod(); tauri('build')
BuildAppSteps == BuildModSteps \o <<"tauri build">>

\* the statements a handler runs, in order
HandlerSteps(h) ==
    CASE h = "typecheck" -> <<"pnpm run typecheck:frontend", "cargo check">>
      [] h = "typecheckFrontend" -> <<"pnpm run typecheck:frontend">>
      [] h = "typecheckBackend" -> <<"cargo check">>
      [] h = "testAll" -> <<"pnpm run test:frontend", "cargo test">>
      [] h = "testFrontend" -> <<"pnpm run test:frontend">>
      [] h = "testFrontendWatch" -> <<"pnpm run test:frontend:watch">>
      [] h = "testFrontendCoverage" -> <<"pnpm run test:frontend:coverage">>
      [] h = "testBackend" -> <<"cargo test">>
      [] h = "testBackendCoverage" -> <<"cargo llvm-cov">>
      [] h = "buildMod" -> BuildModSteps
      [] h = "buildApp" -> BuildAppSteps
      [] h = "icons" -> <<"tauri icon">>
      [] h = "dev" -> <<"tauri dev">>
      [] OTHER -> <<>>

\* const command = process.argv[2]; const handler = COMMANDS[command];
\* if (handler) handler() else process.exit(1)
Dispatch(c, p) ==
    /\ stage = "start"
    /\ command' = c
    /\ platform' = p
    /\ handler' = CommandsLookup(c)
    /\ IF CommandsLookup(c) = "undefined" \/ c \in InheritedThrowing
       THEN \* process.exit(1), or the TypeError of the call leaves the script
            /\ stage' = "exited"
            /\ exitStatus' = 1
            /\ todo' = <<>>
       ELSE /\ stage' = "running"
            /\ todo' = HandlerSteps(CommandsLookup(c))
            /\ UNCHANGED exitStatus
    /\ cur' = [op |-> "dispatch", command |-> c]
    /\ UNCHANGED <<started, completed>>
    /\ UNCHANGED <<impl, appenderVars, loggerVars, sunk, appVars>>

\* the next statement of the handler: the platform test of buildMod, or a
\* synchronous call (execSync, mkdirSync, cpSync) that returns or throws
RunStep(ok) ==
    /\ stage = "running"
    /\ todo # <<>>
    /\ IF Head(todo) = "platform"
       THEN /\ ok
            /\ UNCHANGED <<started, completed>>
            /\ IF platform \in PLATFORM_CONFIG
               THEN todo' = Tail(todo) /\ UNCHANGED <<stage, exitStatus>>
               ELSE todo' = <<>> /\ stage' = "exited" /\ exitStatus' = 1
       ELSE /\ started' = Append(started, Head(todo))
            /\ IF ok
               THEN /\ completed' = Append(completed, Head(todo))
                    /\ todo' = Tail(todo)
                    /\ UNCHANGED <<stage, exitStatus>>
               ELSE \* the exception is not caught: the process exits with status 1
                    /\ todo' = <<>>
                    /\ stage' = "exited"
                    /\ exitStatus' = 1
                    /\ UNCHANGED completed
    /\ cur' = [op |-> "step", step |-> Head(todo), ok |-> ok]
    /\ UNCHANGED <<command, platform, handler>>
    /\ UNCHANGED <<impl, appenderVars, loggerVars, sunk, appVars>>

\* the handler has returned and the script ends
Finish ==
    /\ stage = "running"
    /\ todo = <<>>
    /\ stage' = "exited"
    /\ exitStatus' = 0
    /\ cur' = [op |-> "finish"]
    /\ UNCHANGED <<command, platform, handler, todo, started, completed>>
    /\ UNCHANGED <<impl, appenderVars, loggerVars, sunk, appVars>>

InitScript == Init /\ impl = "createLogger"

NextBuild ==
    \/ \E c \in Arguments, p \in Platforms : Dispatch(c, p)
    \/ \E ok \in BOOLEAN : RunStep(ok)
    \/ Finish

SpecBuild == InitScript /\ [][NextBuild]_vars

\* ---- claims: TauriAppender ----

\* C1 - transport latch: a handle() call that starts on an instance after one of
\* that instance's sink invocations has failed invokes no sink function,
\* whatever the event
C1_TransportLatch ==
    (cur.op = "handle" /\ nFailed[cur.app] > 0) => sunk = <<>>

C1_Witness ==
    /\ cur.op = "handle"
    /\ nFailed[cur.app] > 0
    /\ cur.event.willHandle
    /\ cur.event.level = "ERROR"
    /\ sunk = <<>>

\* C2 - the disabled flag is a one-way latch: false on construction, and true in
\* every state that follows a state where it is true
C2_OneWayLatch ==
    /\ \A a \in Appenders : ~disabled[a]
    /\ [][\A a \in Appenders : disabled[a] => disabled'[a]]_vars

\* a delivery that was in flight when the flag was set has since succeeded
C2_Witness ==
    /\ cur.op = "settle"
    /\ ~cur.rejected
    /\ disabled[cur.app]

\* C3 as stated - at most one sink invocation of an instance ever fails, also
\* when handle() calls overlap
C3_AtMostOneFailure ==
    \A a \in Appenders : nFailed[a] <= 1

\* C3 as amended - the failed sink invocations of an instance are the first one
\* and at most the calls that were already in flight when it failed
C3_FailuresBoundedByOverlap ==
    \A a \in Appenders : nFailed[a] <= 1 + overlap[a]

C3_Witness ==
    \E a \in Appenders : nFailed[a] = 2 /\ overlap[a] >= 1 /\ disabled[a]

\* C4 - level routing: a handle() call on an enabled forwarder for an event it
\* will handle invokes exactly one sink function, the one of the event's level
\* (FATAL goes to error)
C4_LevelRouting ==
    (/\ cur.op = "handle"
     /\ ~disabled[cur.app]
     /\ cur.event.willHandle
     /\ cur.event.level \in {"TRACE", "DEBUG", "INFO", "WARN", "ERROR", "FATAL"})
    => /\ Len(sunk) = 1
       /\ sunk[1].fn = CASE cur.event.level = "TRACE" -> "trace"
                         [] cur.event.level = "DEBUG" -> "debug"
                         [] cur.event.level = "INFO" -> "info"
                         [] cur.event.level = "WARN" -> "warn"
                         [] cur.event.level \in {"ERROR", "FATAL"} -> "error"

C4_Witness ==
    /\ cur.op = "handle"
    /\ cur.event.level = "FATAL"
    /\ Len(sunk) = 1
    /\ sunk[1].fn = "error"

\* ---- claims: the wire format and createLogger ----

\* the logger name and the formatted message of the call the latest step served
CurName == IF cur.op = "handle" THEN cur.event.loggerName ELSE cur.input.name
CurMessage ==
    IF cur.op = "handle" THEN HandleMessage(cur.event.payload)
    ELSE FormattedMessage[MsgArgs(cur.input.msg, cur.input.args)].v

\* C5 - wire format: the text of every sink invocation, of createLogger and of
\* TauriAppender.handle, is the logger name, one U+001F, the formatted message
C5_WireFormat ==
    \A k \in 1..Len(sunk) : sunk[k].text = CurName \o <<SEP>> \o CurMessage

C5_Witness ==
    /\ cur.op = "resume"
    /\ Len(sunk) = 1
    /\ sunk[1].text = <<"A", SEP, "c", ":", " ", "4", "2">>

\* the text cut at its first U+001F, as the backend formatter cuts it
SplitAtFirstSep(text) ==
    IF IndexOf(text, SEP) < 0 THEN <<<<>>, text>>
    ELSE <<Slice(text, 0, IndexOf(text, SEP)), Slice(text, IndexOf(text, SEP) + 1, Len(text))>>

\* C6 - the logger name of every event that reaches the sink holds no U+001F, so
\* cutting the wire text at its first U+001F gives back the logger name and the
\* message
C6_NameRoundTrip ==
    \A k \in 1..Len(sunk) :
        /\ ~Includes(CurName, SEP)
        /\ SplitAtFirstSep(sunk[k].text) = <<CurName, CurMessage>>

\* the location R the call site of the latest step's own stack resolves to,
\* given the consumer and the mapped position it was answered with
C7_Location(R) == Options(R.file, R.line)
C7_R == C7_Location(ResolvedLocation(CallerOfStack[cur.input.stack], cur.consumer, cur.pos))

\* C7 - end to end: an emit logger.<level>(message, ...args) on createLogger(N)
\* whose call site resolves to R calls the sink function of that level with
\* N + U+001F + format(message, args) and with R, the location of its own stack
C7_EndToEnd ==
    (cur.op = "resume" /\ cur.outcome = "invoked") =>
        sunk = <<Invocation(cur.input.method,
                            cur.input.name \o <<SEP>>
                                \o FormattedMessage[MsgArgs(cur.input.msg, cur.input.args)].v,
                            C7_R)>>

\* a warn call is delivered with its mapped location while another call, made
\* from another file, is still waiting
C7_Witness ==
    /\ cur.op = "resume"
    /\ cur.input.method = "warn"
    /\ sunk = <<Invocation("warn", <<"A", SEP, "m">>, Options(SourceFile, 42))>>
    /\ Len(pend) = 2
    /\ \E i \in 1..Len(pend) : pend[i].id # cur.id /\ pend[i].raw.url # cur.raw.url

\* C8 - a location is passed to the sink exactly when a call site is available:
\* an emit without caller frame calls the sink inside the call with no
\* location, an emit with one calls it later and with a location, and handle()
\* passes options exactly when event.callSite is present
C8_LocationIffCallSite ==
    /\ (cur.op = "emit" /\ cur.outcome = "returned") =>
          IF CallerOfStack[cur.input.stack].present
          THEN sunk = <<>>
          ELSE Len(sunk) = 1 /\ ~sunk[1].options.present
    /\ (cur.op = "resume" /\ cur.outcome = "invoked") =>
          Len(sunk) = 1 /\ sunk[1].options.present
    /\ (cur.op = "handle" /\ sunk # <<>>) =>
          (sunk[1].options.present <=> cur.event.callSite.present)

C8_Witness ==
    /\ cur.op = "emit"
    /\ cur.input.stack = StackInternalOnly
    /\ Len(sunk) = 1
    /\ ~sunk[1].options.present

\* C9 - an emit call returns before its fetch and its delivery have completed:
\* at its return the fetch it started is still pending, the sink promise it
\* created is unsettled, and otherwise its continuation is still queued
C9_EmitDoesNotBlock ==
    (cur.op = "emit" /\ cur.outcome = "returned") =>
        \E i \in 1..Len(pend) :
            /\ pend[i].id = cur.id
            /\ cur.fetchStarted => pend[i].pc = "fetch"
            /\ sunk # <<>> => pend[i].pc = "deliver"
            /\ (~cur.fetchStarted /\ sunk = <<>>) =>
                   (pend[i].pc = "resume" /\ \E m \in 1..Len(microtasks) : microtasks[m] = cur.id)

\* an emit call has returned while its own fetch and the fetch of an earlier
\* call are both still pending
C9_Witness ==
    /\ cur.op = "emit"
    /\ cur.outcome = "returned"
    /\ cur.fetchStarted
    /\ \E i \in 1..Len(pend) : pend[i].id # cur.id /\ pend[i].pc = "fetch"

\* C10 - no failure surfaces from an emit call: the call returns normally and
\* no rejection is left unhandled, whatever fails on the way
C10_NothingSurfaces ==
    /\ cur.op = "emit" => cur.outcome = "returned"
    /\ ~unhandled

\* ---- claims: the source-map resolver and its cache ----

\* C11 - resolveLocation never fails: whatever the fetch, the decoding of the
\* map and the position query come to (the query throwing included), the
\* continuation of an emit gets a location and calls the sink; without a
\* consumer or without an original line that location is the raw file and line
C11_ResolveNeverFails ==
    cur.op = "resume" =>
        /\ cur.outcome = "invoked"
        /\ (cur.consumer = "null" \/ ~cur.pos.hasLine) =>
               sunk[1].options = Options(cur.raw.file, cur.raw.line)

\* C12 - every emit call causes at most one sink invocation, and once every
\* fetch and delivery it started has completed it has caused exactly one
C12_ExactlyOneDelivery ==
    /\ nSunk <= nEmit
    /\ (pend = <<>> /\ microtasks = <<>>) => nSunk = nEmit

\* C13 - a cache hit means no fetch: an emit whose call site has an entry in
\* the cache (a consumer or the absent marker) starts no fetch, and its
\* resolution continues with exactly that entry
C13_CacheHitNoFetch ==
    [][(/\ nEmit' = nEmit + 1
        /\ cur'.outcome = "returned"
        /\ CallerOfStack[cur'.input.stack].present
        /\ sourceMapCache[CallerOfStack[cur'.input.stack].url] # "undefined")
       => /\ nFetch' = nFetch
          /\ \E i \in 1..Len(pend') :
                /\ pend'[i].id = cur'.id
                /\ pend'[i].pc = "resume"
                /\ pend'[i].consumer = sourceMapCache[CallerOfStack[cur'.input.stack].url]]_vars

\* the second emit from a file finds the absent marker its first fetch left
C13_Witness ==
    /\ cur.op = "emit"
    /\ cur.outcome = "returned"
    /\ ~cur.fetchStarted
    /\ CallerOfStack[cur.input.stack].present
    /\ sourceMapCache[CallerOfStack[cur.input.stack].url] = "null"
    /\ nFetch[CallerOfStack[cur.input.stack].url] = 1
    /\ \E i \in 1..Len(pend) : pend[i].id = cur.id /\ pend[i].consumer = "null"

\* C14 - a fetch that rejects, a body without inline map and a map that fails
\* to decode or parse leave the absent marker in the cache; the resolution
\* then passes the raw file and line to the sink, and nothing is surfaced
C14_FailureCachedAbsent ==
    /\ (cur.op = "fetched" /\ cur.outcome \in {"rejected", "nomap", "badmap"}) =>
           \E i \in 1..Len(pend) :
               /\ pend[i].id = cur.id
               /\ sourceMapCache[pend[i].raw.url] = "null"
               /\ pend[i].consumer = "null"
    /\ (cur.op = "resume" /\ cur.consumer = "null") =>
           /\ cur.outcome = "invoked"
           /\ Len(sunk) = 1
           /\ sunk[1].options = Options(cur.raw.file, cur.raw.line)
    /\ ~unhandled

\* the emit whose fetch was rejected is delivered with its raw location
C14_Witness ==
    /\ cur.op = "resume"
    /\ cur.consumer = "null"
    /\ nFetch[cur.raw.url] = 1
    /\ sourceMapCache[cur.raw.url] = "null"
    /\ sunk = <<Invocation("info", <<"A", SEP, "m">>, Options(FileApp, 20))>>

\* the fetches of url that have been started and have not completed
PendingFetches(url) == {i \in 1..Len(pend) : pend[i].pc = "fetch" /\ pend[i].raw.url = url}

C16_CacheAppendOnly ==
    [][\A u \in Urls :
          sourceMapCache[u] # "undefined" => sourceMapCache'[u] = sourceMapCache[u]]_vars

\* ---- claims: the pure functions ----

\* C17 - parseCallSiteLine recovers the location exactly: for a line of the
\* form 'at <fn> (<url>:<line>:<col>)', 'at <url>:<line>:<col>' or
\* '<fn>@<url>:<line>:<col>', with or without surrounding whitespace, it returns
\* the url, line and column of the line, also for urls with '@', ':' or parentheses
C17_ParseRecoversLocation ==
    (cur.op = "parseCallSiteLine" /\ cur.wellFormed) =>
        /\ cur.out.present
        /\ cur.out.url = cur.frame.url
        /\ cur.out.line = cur.frame.line
        /\ cur.out.column = cur.frame.column

\* C18 - parseCallSiteLine returns undefined for the empty string and for every
\* line that does not end in two colon-delimited integers
C18_MalformedRejected ==
    (cur.op = "parseCallSiteLine" /\ ~cur.wellFormed) => ~cur.out.present

\* C19 - isInternalFrame is true exactly for the paths that contain '/log/',
\* '\log\', '/log.', '\log.' or 'plugin-log'; it is false where 'log' is part
\* of a longer word and where there is no 'log'
C19_InternalFrameMarkers ==
    cur.op = "isInternalFrame" =>
        /\ cur.out = (\E m \in InternalMarkers : IncludesStr(cur.path, m))
        /\ cur.mid \in InternalMarkers => cur.out
        /\ cur.mid \in WordTokens => ~cur.out

\* a file in a Windows log directory is classified internal
C19_Witness ==
    /\ cur.op = "isInternalFrame"
    /\ cur.path = <<"C", ":", "\\", "s", "\\", "l", "o", "g", "\\", "i", ".", "t", "s">>
    /\ cur.out

\* C20 - stripOrigin returns a relative path unchanged, so that applying it
\* twice equals applying it once, and from an absolute URL it removes exactly
\* the scheme, the host with its port and the leading slash
C20_StripOriginExact ==
    cur.op = "stripOrigin" =>
        /\ cur.arg.kind = "relative" => (cur.out = cur.arg.text /\ cur.twice = cur.out)
        /\ cur.arg.kind = "absolute" => cur.out = cur.arg.path \o cur.arg.suffix

\* the text starts like a URL: a letter, then letters, digits, '+', '-' or '.',
\* then a colon
HasSchemePrefix(text) ==
    \E i \in 2..Len(text) :
        /\ text[i] = ":"
        /\ text[1] \in Letters
        /\ \A j \in 2..(i - 1) : text[j] \in Letters \cup Digits \cup {"+", "-", "."}

\* C20 as amended - stripOrigin returns unchanged a path that does not start
\* like a URL, and from an absolute http(s) URL with a plain path it returns
\* that path: scheme, host, port and leading slash are removed, and so are a
\* query and a fragment; in both cases applying it twice equals applying it once
C20_StripOriginPathname ==
    cur.op = "stripOrigin" =>
        /\ (cur.arg.kind = "relative" /\ ~HasSchemePrefix(cur.arg.text)) =>
               (cur.out = cur.arg.text /\ cur.twice = cur.out)
        /\ cur.arg.kind = "absolute" => (cur.out = cur.arg.path /\ cur.twice = cur.out)

\* the query of a dev-server URL is dropped with the origin
C20_Witness ==
    /\ cur.op = "stripOrigin"
    /\ impl = "createLogger"
    /\ cur.arg.kind = "absolute"
    /\ cur.arg.suffix = <<"?", "t", "=", "1">>
    /\ cur.out = FileApp

\* the text the claim gives an argument: a string verbatim, a number and the
\* object {} as their JSON text
SerializedText(arg) ==
    CASE arg.k = "str" -> arg.v
      [] arg.k = "num" -> DecStr(arg.n)
      [] arg.k = "object" -> <<"{", "}">>

RECURSIVE SpaceJoined(_)
SpaceJoined(args) ==
    IF Len(args) = 1 THEN SerializedText(args[1])
    ELSE SerializedText(args[1]) \o <<" ">> \o SpaceJoined(Tail(args))

\* C21 - format(message, []) is message; with arguments the result is message,
\* one space, and the arguments joined by single spaces in their order, a
\* string verbatim and another value as its serialized text
C21_MessageFormat ==
    (/\ cur.op = "formatArgs"
     /\ \A i \in 1..Len(cur.args) : cur.args[i].k \in {"str", "num", "object"})
    => /\ ~cur.out.threw
       /\ cur.out.v = IF cur.args = <<>> THEN cur.message
                      ELSE cur.message \o <<" ">> \o SpaceJoined(cur.args)

\* format('count:', [42]) = 'count: 42', and an object goes through JSON
C21_Witness ==
    /\ cur.op = "formatArgs"
    /\ cur.message = <<"c", "o", "u", "n", "t", ":">>
    /\ cur.args = <<NumArg(42), EmptyObjectArg>>
    /\ cur.out.v = <<"c", "o", "u", "n", "t", ":", " ", "4", "2", " ", "{", "}">>

Qualifies(line) ==
    /\ parseCallSiteLine(line).present
    /\ ~isInternalFrame(parseCallSiteLine(line).url)

\* C26 - rawCallerLocation returns the first line of the stack that parses and
\* is not internal: the frame returned is never internal and every line before
\* it is unparseable or internal; without such a line, and without a stack, it
\* returns undefined
C26_FirstExternalFrame ==
    cur.op = "rawCallerLocation" =>
        /\ cur.out.present =>
              /\ cur.stack.present
              /\ ~isInternalFrame(cur.out.url)
              /\ \E k \in 1..Len(cur.stack.lines) :
                    /\ Qualifies(cur.stack.lines[k])
                    /\ cur.out = parseCallSiteLine(cur.stack.lines[k])
                    /\ \A j \in 1..(k - 1) : ~Qualifies(cur.stack.lines[j])
        /\ ~cur.out.present =>
              \A k \in 1..Len(cur.stack.lines) : ~Qualifies(cur.stack.lines[k])

\* the caller is found behind the header line and a frame of the logger
C26_Witness ==
    /\ cur.op = "rawCallerLocation"
    /\ cur.stack = Stack(<<LineError, LineLogWebKit, LineAppV8>>)
    /\ cur.out.present
    /\ cur.out.url = UrlApp
    /\ cur.out.line = 20

\* the part of text after its last '@'
AfterLastAt(text) == Slice(text, LastIndexOf(text, "@") + 1, Len(text))
\* the part of text after its first '@'
AfterFirstAt(text) == Slice(text, IndexOf(text, "@") + 1, Len(text))

\* the '<url>:<line>:<col>' candidate the '@' step receives holds no parentheses
AtStepFrame ==
    /\ cur.op = "parseCallSiteLine"
    /\ cur.wellFormed
    /\ Includes(cur.line, "@")
    /\ ~Includes(cur.frame.url, "(")

\* the candidate of the '@' step: the whole WebKit line, the position otherwise
AtStepCandidate ==
    IF cur.frame.form = "webkit" THEN <<"f", "@">> \o FramePosition(cur.frame)
    ELSE FramePosition(cur.frame)

\* C27 - when the candidate holds one or more '@', parseCallSiteLine keeps what
\* follows the last '@'
C27_KeepsAfterLastAt ==
    AtStepFrame =>
        /\ cur.out.present
        /\ cur.out.url \o <<":">> \o DecStr(cur.out.line) \o <<":">> \o DecStr(cur.out.column)
               = AfterLastAt(AtStepCandidate)

\* C27 as amended - when the candidate holds one or more '@', parseCallSiteLine
\* keeps what follows the first '@'
C27_KeepsAfterFirstAt ==
    AtStepFrame =>
        /\ cur.out.present
        /\ cur.out.url \o <<":">> \o DecStr(cur.out.line) \o <<":">> \o DecStr(cur.out.column)
               = AfterFirstAt(AtStepCandidate)

\* a WebKit frame of a file below an '@' directory keeps its whole url
C27_Witness ==
    /\ cur.op = "parseCallSiteLine"
    /\ cur.frame.form = "webkit"
    /\ cur.frame.url = UrlScoped
    /\ cur.out.url = UrlScoped

\* C28 - every call site parseCallSiteLine returns has line >= 1 and column >= 1
C28_PositiveLineAndColumn ==
    (cur.op = "parseCallSiteLine" /\ cur.out.present) =>
        (cur.out.line >= 1 /\ cur.out.column >= 1)

\* ---- claims: TauriAppender, failures and payloads ----

\* C23 - handle() never lets a delivery failure escape: when the sink
\* invocation rejects, the promise of handle() fulfils and the only change of
\* the appender's state is its disabled flag becoming true
C23_FailureNeverEscapes ==
    [][(cur'.op = "settle" /\ cur'.rejected) =>
          /\ cur'.outcome = "fulfilled"
          /\ disabled' = [disabled EXCEPT ![cur'.app] = TRUE]]_vars

\* a rejected delivery of an appender that was enabled
C23_Witness ==
    /\ cur.op = "settle"
    /\ cur.rejected
    /\ cur.outcome = "fulfilled"
    /\ disabled[cur.app]
    /\ nFailed[cur.app] = 1

\* the text the claim gives one item of a payload array
ItemText(item) ==
    CASE item.k = "str" -> item.v
      [] item.k = "num" -> DecStr(item.n)
      [] item.k = "lazy" /\ item.ok -> item.v
      [] item.k = "lazy" /\ ~item.ok -> <<"[", "l", "a", "z", "y", " ", "e", "v", "a", "l", " ", "e", "r", "r", "o", "r", "]">>

RECURSIVE ItemsText(_)
ItemsText(items) ==
    IF items = <<>> THEN <<>>
    ELSE IF Len(items) = 1 THEN ItemText(items[1])
    ELSE ItemText(items[1]) \o <<" ">> \o ItemsText(Tail(items))

\* the message the claim gives a payload
PayloadText(payload) ==
    IF payload.fn
    THEN IF payload.ok THEN payload.v ELSE <<"[", "l", "a", "z", "y", " ", "e", "v", "a", "l", " ", "e", "r", "r", "o", "r", "]">>
    ELSE ItemsText(payload.items)

\* C29 - the message is built from the payload: the items of an array joined by
\* single spaces, a function item by the text of its return value or
\* '[lazy eval error]' when it throws, a function payload by its return value
\* or '[lazy eval error]'; a throwing payload never prevents the sink invocation
C29_MessageFromPayload ==
    (cur.op = "handle" /\ cur.event.willHandle /\ ~disabled[cur.app]) =>
        /\ Len(sunk) = 1
        /\ sunk[1].text = cur.event.loggerName \o <<SEP>> \o PayloadText(cur.event.payload)

\* an array with a lazy item and a throwing lazy item reaches the sink
C29_Witness ==
    /\ cur.op = "handle"
    /\ cur.event.payload = ArrayPayload(<<LazyItem(<<"z">>), ThrowingItem>>)
    /\ Len(sunk) = 1
    /\ sunk[1].text = <<"A", SEP>> \o <<"z", " ", "[", "l", "a", "z", "y", " ", "e", "v", "a", "l", " ", "e", "r", "r", "o", "r", "]">>

\* C30 - the disabled flag of an appender changes only by a failed sink
\* invocation of that appender: a delivery that succeeds, a skipped event and a
\* failure of another appender leave it unchanged
C30_DisabledOnlyByOwnFailure ==
    [][\A a \in Appenders :
          disabled'[a] # disabled[a] =>
              (cur'.op = "settle" /\ cur'.app = a /\ cur'.rejected)]_vars

\* a1 is disabled by its failure while a delivery of a2 succeeds and leaves a2 enabled
C30_Witness ==
    /\ cur.op = "settle"
    /\ cur.app = "a2"
    /\ ~cur.rejected
    /\ disabled["a1"]
    /\ ~disabled["a2"]

\* ---- claims: the order of sink invocations ----

\* the entry of pend that belongs to call id
EntryOf(id) == pend[IndexOfId(id)]

\* a sink invocation has just happened for the call cur.id while the earlier
\* call of entry i has not reached the sink
Overtaken(i) ==
    /\ cur.op \in {"emit", "resume"}
    /\ sunk # <<>>
    /\ pend[i].id < cur.id
    /\ pend[i].pc \in {"fetch", "resume"}

\* C24 - the order of arrival at the sink is not guaranteed: a later call can
\* reach the sink before an earlier one, and it does so only when the earlier
\* call missed the cache and still waits for its fetch, or when the later call
\* found no call site and was delivered inside its own call
C24_OvertakingOnlyOfSlowerCalls ==
    \A i \in 1..Len(pend) :
        Overtaken(i) =>
            \/ cur.op = "resume" /\ ~pend[i].hit /\ pend[i].pc = "fetch"
            \/ cur.op = "emit" /\ ~CallerOfStack[cur.input.stack].present

\* call 2 missed the cache and waits for its fetch while call 3, whose url is
\* cached, reaches the sink
C24_Witness ==
    /\ cur.op = "resume"
    /\ cur.id = 3
    /\ cur.outcome = "invoked"
    /\ EntryOf(3).hit
    /\ \E i \in 1..Len(pend) :
          pend[i].id = 2 /\ ~pend[i].hit /\ pend[i].pc = "fetch"

\* C25 - when the call-site urls of two calls are both cached at call time, the
\* earlier call reaches the sink first: when the later one is delivered, the
\* earlier one is not waiting any more
C25_CachedCallsKeepOrder ==
    \A i \in 1..Len(pend) :
        (/\ cur.op = "resume"
         /\ cur.outcome = "invoked"
         /\ EntryOf(cur.id).hit
         /\ pend[i].id < cur.id
         /\ pend[i].hit)
        => pend[i].pc = "deliver"

\* calls 2 and 3 both hit the cache and call 2 is at the sink when call 3 arrives
C25_Witness ==
    /\ cur.op = "resume"
    /\ cur.id = 3
    /\ cur.outcome = "invoked"
    /\ EntryOf(3).hit
    /\ nSunk = 3
    /\ \E i \in 1..Len(pend) :
          pend[i].id = 2 /\ pend[i].hit /\ pend[i].pc = "deliver"

\* ---- claims: the facade under failing and hanging deliveries ----

\* the continuation of call id is in the microtask queue
Queued(q, id) == \E m \in 1..Len(q) : q[m] = id

\* C31 - the facade keeps no failure state: the rejection of a sink invocation
\* removes that call from the pending ones and changes nothing else, so the
\* calls that follow find the state a fulfilled delivery would have left, and a
\* call without call site invokes its sink inside the call
C31_RejectionLeavesNoTrace ==
    [][/\ (cur'.op = "delivered" /\ cur'.rejected) =>
              /\ UNCHANGED <<sourceMapCache, microtasks, nEmit, nFetch, nSunk, unhandled>>
              /\ Len(pend') = Len(pend) - 1
              /\ \A i \in 1..Len(pend) :
                    pend[i].id # cur'.id => \E j \in 1..Len(pend') : pend'[j] = pend[i]
       /\ (cur'.op = "emit" /\ cur'.outcome = "returned"
              /\ ~CallerOfStack[cur'.input.stack].present) => Len(sunk') = 1]_vars

\* the delivery of call 1 is rejected while call 2 is on its way to the sink
C31_Witness ==
    /\ cur.op = "delivered"
    /\ cur.rejected
    /\ cur.id = 1
    /\ Len(pend) = 1
    /\ pend[1].id = 2
    /\ pend[1].pc \in {"fetch", "resume"}
    /\ ~unhandled

\* C32 - a fetch that never completes stalls only its own call: a call waits for
\* nothing but its own fetch (a call that hit the cache is queued, a call
\* without call site is delivered inside the call), and the cache entry of a url
\* changes only when a fetch of that url settles
C32_HangingFetchStallsOnlyItself ==
    [][/\ \A j \in 1..Len(pend') :
              /\ pend'[j].pc = "fetch" => ~pend'[j].hit
              /\ pend'[j].pc = "resume" => Queued(microtasks', pend'[j].id)
       /\ (cur'.op = "emit" /\ cur'.outcome = "returned"
              /\ ~CallerOfStack[cur'.input.stack].present) => Len(sunk') = 1
       /\ \A u \in Urls :
              sourceMapCache'[u] # sourceMapCache[u] =>
                  (cur'.op = "fetched" /\ EntryOf(cur'.id).raw.url = u)]_vars

\* the fetch of call 1 is still pending after calls 2 and 3, one without call
\* site and one from another script, have reached the sink
C32_Witness ==
    /\ nEmit = 3
    /\ nSunk = 2
    /\ \E i \in 1..Len(pend) : pend[i].id = 1 /\ pend[i].pc = "fetch"
    /\ sourceMapCache[UrlApp] = "undefined"
    /\ sourceMapCache[UrlMain] # "undefined"

\* ---- claims: App.vue ----

\* C33 - at most one polling interval is alive, and pollTimer is non-null
\* exactly when that interval exists (and then holds its id)
C33_AtMostOneInterval ==
    /\ Cardinality(intervals) <= 1
    /\ (pollTimer # NoTimer) <=> (intervals # {})
    /\ pollTimer # NoTimer => intervals = {pollTimer}

\* polling runs on its second interval, the first one was cleared
C33_Witness ==
    /\ timerSeq = 2
    /\ pollTimer = 2
    /\ intervals = {2}

C35_NoPollingAfterUnmount ==
    phase = "unmounted" => (intervals = {} /\ pollTimer = NoTimer)

\* the unsettled invokes of patch_entitlements and launch_game
InFlight == invoking["patch_entitlements"] + invoking["launch_game"]

\* C36 - at most one of patch_entitlements / launch_game is in flight, and
\* actionPending is true exactly while that invoke is unsettled
C36_ActionPendingTracksInvoke ==
    /\ InFlight <= 1
    /\ actionPending <=> (InFlight = 1)

\* a launch_game that failed has reset actionPending
C36_Witness ==
    /\ cur.op = "settled"
    /\ cur.command = "launch_game"
    /\ ~cur.ok
    /\ ~actionPending
    /\ actionError # NoError
    /\ nClick = 2

\* C37 - no double launch: after a successful launch_game the Launch button
\* triggers no further launch_game before a status response has been processed
C37_NoDoubleLaunch ==
    (cur.op = "click" /\ cur.command = "launch_game") => ~cur.unseen

\* C38 - the status error is sticky: once set it is never cleared, and a later
\* response that succeeds updates status and leaves error set
C38_ErrorSticky ==
    [][/\ error # NoError => error' = error
       /\ (cur'.op = "status" /\ cur'.ok) => status' = cur'.result]_vars

\* a response succeeds after an earlier one failed
C38_Witness ==
    /\ cur.op = "status"
    /\ cur.ok
    /\ status = cur.result
    /\ error # NoError

\* ---- claims: the build script ----

\* step is among the steps of the sequence
Has(steps, step) == \E i \in 1..Len(steps) : steps[i] = step

\* C39 - for 'build' and 'build:app' the Tauri build starts only after the mod
\* build and the copy of the dylib have completed; on an unsupported platform
\* or a failing mod build it is never started; an unknown command runs no
\* handler and exits with status 1
C39_ModBeforeApp ==
    /\ (command \in {"build", "build:app"} /\ Has(started, "tauri build")) =>
           /\ Has(completed, "xmake build")
           /\ Has(completed, "cpSync")
           /\ platform = "darwin"
    /\ (stage # "start" /\ command \notin DOMAIN COMMANDS) => handler = "undefined"
    /\ (stage = "exited" /\ command \notin DOMAIN COMMANDS) => exitStatus = 1

====
